---- MODULE Spec2Model ----
\* Half-edge mesh core of pcl::geometry::MeshBase (mesh_base.h): the three
\* element arrays, addVertex / addFace / deleteVertex / deleteEdge /
\* deleteFace / cleanUp, for the manifold and the non-manifold policy.
EXTENDS Integers, Sequences, FiniteSets, TLC

\* ---------------------------------------------------------------- bounds
MaxVertices == 7
MaxEdges == 10
MaxFaces == 4
MaxCleanUps == 1
MaxResizes == 1

\* ------------------------------------------------------------- the state
VARIABLES vertices_, half_edges_, faces_, IsManifold, status, cleanUps, scene,
          vertex_data_cloud_, half_edge_data_cloud_, edge_data_cloud_, face_data_cloud_,
          HasVertexData, HasHalfEdgeData, HasEdgeData, HasFaceData, resizes

vars == <<vertices_, half_edges_, faces_, IsManifold, status, cleanUps, scene, vertex_data_cloud_, half_edge_data_cloud_, edge_data_cloud_, face_data_cloud_, HasVertexData, HasHalfEdgeData, HasEdgeData, HasFaceData, resizes>>

\* ------------------------------------------------------ indices, elements
\* 0-based element of a std::vector held as a sequence.
At(seq, i) == seq[i + 1]

\* The invalid index (default-constructed VertexIndex / HalfEdgeIndex / FaceIndex).
Invalid == 0 - 1

Vertex == [idx_outgoing_half_edge_ |-> Invalid]

HalfEdge(idx_terminating_vertex) ==
    [idx_terminating_vertex_ |-> idx_terminating_vertex,
     idx_next_half_edge_ |-> Invalid,
     idx_prev_half_edge_ |-> Invalid,
     idx_face_ |-> Invalid]

Face(idx_inner_half_edge) == [idx_inner_half_edge_ |-> idx_inner_half_edge]

\* The mesh as one value, so that the member functions are operators on it.
Mesh(v, h, f) == [vertices_ |-> v, half_edges_ |-> h, faces_ |-> f]

sizeVertices(m) == Len(m.vertices_)
sizeHalfEdges(m) == Len(m.half_edges_)
sizeEdges(m) == Len(m.half_edges_) \div 2
sizeFaces(m) == Len(m.faces_)

isValidVertex(m, idx_vertex) == idx_vertex >= 0 /\ idx_vertex < Len(m.vertices_)
isValidHalfEdge(m, idx_he) == idx_he >= 0 /\ idx_he < Len(m.half_edges_)
isValidEdge(m, idx_edge) == idx_edge >= 0 /\ idx_edge < Len(m.half_edges_) \div 2
isValidFace(m, idx_face) == idx_face >= 0 /\ idx_face < Len(m.faces_)

\* ------------------------------------------------------------ connectivity
getOutgoingHalfEdgeIndex(m, idx_vertex) ==
    m.vertices_[idx_vertex + 1].idx_outgoing_half_edge_

getOppositeHalfEdgeIndex(idx_half_edge) ==
    IF idx_half_edge % 2 = 1 THEN idx_half_edge - 1 ELSE idx_half_edge + 1

getTerminatingVertexIndex(m, idx_half_edge) ==
    m.half_edges_[idx_half_edge + 1].idx_terminating_vertex_

getOriginatingVertexIndex(m, idx_half_edge) ==
    getTerminatingVertexIndex(m, getOppositeHalfEdgeIndex(idx_half_edge))

getNextHalfEdgeIndex(m, idx_half_edge) ==
    m.half_edges_[idx_half_edge + 1].idx_next_half_edge_

getPrevHalfEdgeIndex(m, idx_half_edge) ==
    m.half_edges_[idx_half_edge + 1].idx_prev_half_edge_

getFaceIndex(m, idx_half_edge) ==
    m.half_edges_[idx_half_edge + 1].idx_face_

getInnerHalfEdgeIndex(m, idx_face) ==
    m.faces_[idx_face + 1].idx_inner_half_edge_

toHalfEdgeIndex(idx_edge, get_first) ==
    IF get_first THEN 2 * idx_edge ELSE 2 * idx_edge + 1

\* ------------------------------------------------------------- predicates
isDeletedVertex(m, idx_vertex) == getOutgoingHalfEdgeIndex(m, idx_vertex) < 0
isDeletedHalfEdge(m, idx_he) == getTerminatingVertexIndex(m, idx_he) < 0
isDeletedEdge(m, idx_edge) ==
    \/ isDeletedHalfEdge(m, toHalfEdgeIndex(idx_edge, TRUE))
    \/ isDeletedHalfEdge(m, toHalfEdgeIndex(idx_edge, FALSE))
isDeletedFace(m, idx_face) == getInnerHalfEdgeIndex(m, idx_face) < 0

isIsolated(m, idx_vertex) == getOutgoingHalfEdgeIndex(m, idx_vertex) < 0

isBoundaryHalfEdge(m, idx_he) == getFaceIndex(m, idx_he) < 0
isBoundaryVertex(m, idx_vertex) ==
    isBoundaryHalfEdge(m, getOutgoingHalfEdgeIndex(m, idx_vertex))
isBoundaryEdge(m, idx_edge) ==
    \/ isBoundaryHalfEdge(m, toHalfEdgeIndex(idx_edge, TRUE))
    \/ isBoundaryHalfEdge(m, getOppositeHalfEdgeIndex(toHalfEdgeIndex(idx_edge, TRUE)))

\* ---------------------------------------------------------------- setters
setOutgoingHalfEdgeIndex(m, idx_vertex, idx_outgoing_half_edge) ==
    [m EXCEPT !.vertices_[idx_vertex + 1].idx_outgoing_half_edge_ = idx_outgoing_half_edge]

setNextHalfEdgeIndex(m, idx_half_edge, idx_next_half_edge) ==
    [m EXCEPT !.half_edges_[idx_half_edge + 1].idx_next_half_edge_ = idx_next_half_edge]

setPrevHalfEdgeIndex(m, idx_half_edge, idx_prev_half_edge) ==
    [m EXCEPT !.half_edges_[idx_half_edge + 1].idx_prev_half_edge_ = idx_prev_half_edge]

setFaceIndex(m, idx_half_edge, idx_face) ==
    [m EXCEPT !.half_edges_[idx_half_edge + 1].idx_face_ = idx_face]

\* Mutation of markDeleted (VertexIndex): the vertex is not marked.
markDeletedVertexNot(m, idx_vertex) == m

markDeletedVertex(m, idx_vertex) ==
    [m EXCEPT !.vertices_[idx_vertex + 1].idx_outgoing_half_edge_ = Invalid]

\* Mutation of markDeleted (HalfEdgeIndex): the half-edge is left as it is.
markDeletedHalfEdgeNot(m, idx_he) == m

markDeletedHalfEdge(m, idx_he) ==
    [m EXCEPT !.half_edges_[idx_he + 1].idx_terminating_vertex_ = Invalid]

\* Mutation of markDeleted (FaceIndex): the last face of the sequence is
\* taken out of it.
markDeletedFaceErased(m, idx_face) ==
    IF idx_face + 1 = Len(m.faces_)
    THEN [m EXCEPT !.faces_ = SubSeq(@, 1, Len(@) - 1)]
    ELSE [m EXCEPT !.faces_[idx_face + 1].idx_inner_half_edge_ = Invalid]

\* Mutation of markDeleted (FaceIndex): the face is not marked.
markDeletedFaceNot(m, idx_face) == m

markDeletedFace(m, idx_face) ==
    [m EXCEPT !.faces_[idx_face + 1].idx_inner_half_edge_ = Invalid]

\* Mutation of connectPrevNext: the link back from bc to ab is not set.
connectPrevNextOneWay(m, idx_he_ab, idx_he_bc) ==
    setNextHalfEdgeIndex(m, idx_he_ab, idx_he_bc)

connectPrevNext(m, idx_he_ab, idx_he_bc) ==
    setPrevHalfEdgeIndex(setNextHalfEdgeIndex(m, idx_he_ab, idx_he_bc), idx_he_bc, idx_he_ab)

\* ------------------------------------------------------------- circulators
\* operator++ of the circulators around a vertex and around a face.
\* "out": VertexAroundVertex, OutgoingHalfEdgeAroundVertex, FaceAroundVertex
\* (all three hold an outgoing half-edge and turn it the same way);
\* "in": IncomingHalfEdgeAroundVertex; "inner": the circulators around a face.
\* Mutation of the increment: the incoming circulator steps to the next of
\* the opposite half-edge.
circulatorIncrementNextOpposite(kind, m, idx_half_edge) ==
    CASE kind = "out" ->
           getOppositeHalfEdgeIndex(getPrevHalfEdgeIndex(m, idx_half_edge))
      [] kind = "in" ->
           getNextHalfEdgeIndex(m, getOppositeHalfEdgeIndex(idx_half_edge))
      [] OTHER -> getNextHalfEdgeIndex(m, idx_half_edge)

circulatorIncrement(kind, m, idx_half_edge) ==
    CASE kind = "out" ->
           getOppositeHalfEdgeIndex(getPrevHalfEdgeIndex(m, idx_half_edge))
      [] kind = "in" ->
           getOppositeHalfEdgeIndex(getNextHalfEdgeIndex(m, idx_half_edge))
      [] OTHER -> getNextHalfEdgeIndex(m, idx_half_edge)

\* The half-edges a loop  do { ... } while (++circ != circ_end)  visits when it
\* is started at acc[1]. closed = FALSE: the circulator never comes back to
\* circ_end (it runs into a cycle that does not hold circ_end, or leaves the
\* half-edge array), so the loop does not end by its condition.
RECURSIVE circulate(_, _, _, _)
circulate(kind, m, cur, acc) ==
    LET nxt == circulatorIncrement(kind, m, cur) IN
    IF nxt = acc[1] THEN [seq |-> acc, closed |-> TRUE]
    ELSE IF ~isValidHalfEdge(m, nxt) \/ Len(acc) > Len(m.half_edges_)
         THEN [seq |-> acc, closed |-> FALSE]
         ELSE circulate(kind, m, nxt, Append(acc, nxt))

circulatorRound(kind, m, idx_half_edge) ==
    circulate(kind, m, idx_half_edge, <<idx_half_edge>>)

\* Position of the first TRUE in a sequence of test results, 0 if none: where
\* a loop over a circulator stops.
FirstIndex(tests) ==
    IF \E k \in 1..Len(tests) : tests[k]
    THEN CHOOSE k \in 1..Len(tests) : tests[k] /\ \A j \in 1..(k - 1) : ~tests[j]
    ELSE 0

\* ----------------------------------------------------------------- addEdge
addEdge(m, idx_v_a, idx_v_b) ==
    [m EXCEPT !.half_edges_ = @ \o <<HalfEdge(idx_v_b), HalfEdge(idx_v_a)>>]

\* ---------------------------------------------------------- topology checks
\* Results: ok (the return value), the out-parameters, and hang = TRUE when the
\* circulator loop of the check never ends.
\* Mutation of the manifold checkTopology1: a vertex whose outgoing half-edge
\* has a face is taken like a boundary vertex.
checkTopology1ManifoldAnyOutgoing(m, idx_v_a, idx_v_b, idx_he_ab, is_new_ab) ==
    IF isIsolated(m, idx_v_a)
    THEN [ok |-> TRUE, idx_he_ab |-> idx_he_ab, is_new_ab |-> is_new_ab, hang |-> FALSE]
    ELSE [ok |-> TRUE, idx_he_ab |-> getOutgoingHalfEdgeIndex(m, idx_v_a),
          is_new_ab |-> IF getTerminatingVertexIndex(m, getOutgoingHalfEdgeIndex(m, idx_v_a))
                           = idx_v_b
                        THEN FALSE ELSE is_new_ab,
          hang |-> FALSE]

checkTopology1Manifold(m, idx_v_a, idx_v_b, idx_he_ab, is_new_ab) ==
    IF isIsolated(m, idx_v_a)
    THEN [ok |-> TRUE, idx_he_ab |-> idx_he_ab, is_new_ab |-> is_new_ab, hang |-> FALSE]
    ELSE LET he == getOutgoingHalfEdgeIndex(m, idx_v_a) IN
         IF ~isBoundaryHalfEdge(m, he)
         THEN [ok |-> FALSE, idx_he_ab |-> he, is_new_ab |-> is_new_ab, hang |-> FALSE]
         ELSE [ok |-> TRUE, idx_he_ab |-> he,
               is_new_ab |-> IF getTerminatingVertexIndex(m, he) = idx_v_b
                             THEN FALSE ELSE is_new_ab,
               hang |-> FALSE]

checkTopology1NonManifold(m, idx_v_a, idx_v_b, idx_he_ab, is_new_ab) ==
    IF isIsolated(m, idx_v_a)
    THEN [ok |-> TRUE, idx_he_ab |-> idx_he_ab, is_new_ab |-> is_new_ab, hang |-> FALSE]
    ELSE IF ~isBoundaryHalfEdge(m, getOutgoingHalfEdgeIndex(m, idx_v_a))
    THEN [ok |-> FALSE, idx_he_ab |-> idx_he_ab, is_new_ab |-> is_new_ab, hang |-> FALSE]
    ELSE LET round == circulatorRound("out", m, getOutgoingHalfEdgeIndex(m, idx_v_a))
             IsTarget(h) == getTerminatingVertexIndex(m, h) = idx_v_b
             k == FirstIndex([position \in DOMAIN round.seq |-> IsTarget(round.seq[position])])
         IN  IF k > 0
             THEN IF ~isBoundaryHalfEdge(m, round.seq[k])
                  THEN [ok |-> FALSE, idx_he_ab |-> round.seq[k], is_new_ab |-> TRUE,
                        hang |-> FALSE]
                  ELSE [ok |-> TRUE, idx_he_ab |-> round.seq[k], is_new_ab |-> FALSE,
                        hang |-> FALSE]
             ELSE [ok |-> TRUE, idx_he_ab |-> idx_he_ab, is_new_ab |-> TRUE,
                   hang |-> ~round.closed]

checkTopology1(m, idx_v_a, idx_v_b, idx_he_ab, is_new_ab, is_manifold) ==
    IF is_manifold
    THEN checkTopology1Manifold(m, idx_v_a, idx_v_b, idx_he_ab, is_new_ab)
    ELSE checkTopology1NonManifold(m, idx_v_a, idx_v_b, idx_he_ab, is_new_ab)

checkTopology2Manifold(is_new_ab, is_new_bc, is_isolated_b) ==
    [ok |-> ~(is_new_ab /\ is_new_bc /\ ~is_isolated_b),
     make_adjacent_ab_bc |-> FALSE, idx_free_half_edge |-> Invalid, hang |-> FALSE]

\* Mutation of the non-manifold checkTopology2: a free half-edge that is the
\* half-edge ab itself is accepted.
checkTopology2NonManifoldAnyFree(m, idx_he_ab, idx_he_bc, is_new_ab, is_new_bc) ==
    IF is_new_ab \/ is_new_bc
    THEN [ok |-> TRUE, make_adjacent_ab_bc |-> FALSE, idx_free_half_edge |-> Invalid,
          hang |-> FALSE]
    ELSE IF getNextHalfEdgeIndex(m, idx_he_ab) = idx_he_bc
    THEN [ok |-> TRUE, make_adjacent_ab_bc |-> FALSE, idx_free_half_edge |-> Invalid,
          hang |-> FALSE]
    ELSE \* do ++circ; while (!isBoundary (circ.getTargetIndex ()));
         LET round == circulatorRound("in", m, getOppositeHalfEdgeIndex(idx_he_bc))
             seen == IF round.closed THEN Tail(round.seq) \o <<round.seq[1]>>
                     ELSE Tail(round.seq)
             IsFree(h) == isBoundaryHalfEdge(m, h)
             k == FirstIndex([position \in DOMAIN seen |-> IsFree(seen[position])])
         IN  IF k = 0
             THEN [ok |-> FALSE, make_adjacent_ab_bc |-> TRUE,
                   idx_free_half_edge |-> Invalid, hang |-> TRUE]
             ELSE [ok |-> TRUE, make_adjacent_ab_bc |-> TRUE,
                   idx_free_half_edge |-> seen[k], hang |-> FALSE]

checkTopology2NonManifold(m, idx_he_ab, idx_he_bc, is_new_ab, is_new_bc) ==
    IF is_new_ab \/ is_new_bc
    THEN [ok |-> TRUE, make_adjacent_ab_bc |-> FALSE, idx_free_half_edge |-> Invalid,
          hang |-> FALSE]
    ELSE IF getNextHalfEdgeIndex(m, idx_he_ab) = idx_he_bc
    THEN [ok |-> TRUE, make_adjacent_ab_bc |-> FALSE, idx_free_half_edge |-> Invalid,
          hang |-> FALSE]
    ELSE \* do ++circ; while (!isBoundary (circ.getTargetIndex ()));
         LET round == circulatorRound("in", m, getOppositeHalfEdgeIndex(idx_he_bc))
             seen == IF round.closed THEN Tail(round.seq) \o <<round.seq[1]>>
                     ELSE Tail(round.seq)
             IsFree(h) == isBoundaryHalfEdge(m, h)
             k == FirstIndex([position \in DOMAIN seen |-> IsFree(seen[position])])
         IN  IF k = 0
             THEN [ok |-> FALSE, make_adjacent_ab_bc |-> TRUE,
                   idx_free_half_edge |-> Invalid, hang |-> TRUE]
             ELSE [ok |-> seen[k] # idx_he_ab, make_adjacent_ab_bc |-> TRUE,
                   idx_free_half_edge |-> seen[k], hang |-> FALSE]

checkTopology2(m, idx_he_ab, idx_he_bc, is_new_ab, is_new_bc, is_isolated_b, is_manifold) ==
    IF is_manifold
    THEN checkTopology2Manifold(is_new_ab, is_new_bc, is_isolated_b)
    ELSE checkTopology2NonManifold(m, idx_he_ab, idx_he_bc, is_new_ab, is_new_bc)

\* Mutation of makeAdjacent: the free half-edge is linked to the half-edge that
\* followed it, not to the one that followed ab.
makeAdjacentFreeNext(m, idx_he_ab, idx_he_bc, idx_free_half_edge) ==
    LET idx_he_bc_prev == getPrevHalfEdgeIndex(m, idx_he_bc)
        idx_he_free_next == getNextHalfEdgeIndex(m, idx_free_half_edge)
    IN  connectPrevNext(
          connectPrevNext(
            connectPrevNext(m, idx_he_ab, idx_he_bc),
            idx_free_half_edge, idx_he_free_next),
          idx_he_bc_prev, idx_he_free_next)

makeAdjacent(m, idx_he_ab, idx_he_bc, idx_free_half_edge) ==
    LET idx_he_ab_next == getNextHalfEdgeIndex(m, idx_he_ab)
        idx_he_bc_prev == getPrevHalfEdgeIndex(m, idx_he_bc)
        idx_he_free_next == getNextHalfEdgeIndex(m, idx_free_half_edge)
    IN  connectPrevNext(
          connectPrevNext(
            connectPrevNext(m, idx_he_ab, idx_he_bc),
            idx_free_half_edge, idx_he_ab_next),
          idx_he_bc_prev, idx_he_free_next)

\* ----------------------------------------------------------------- connect
\* Mutation of connectFace: the last inner half-edge does not get the face.
connectFaceButLast(m, inner_he) ==
    LET idx_face == Len(m.faces_)
    IN  [m EXCEPT !.faces_ = Append(@, Face(inner_he[Len(inner_he)])),
                  !.half_edges_ =
                     [k \in DOMAIN @ |->
                        IF \E i \in 1..(Len(inner_he) - 1) : inner_he[i] = k - 1
                        THEN [@[k] EXCEPT !.idx_face_ = idx_face]
                        ELSE @[k]]]

\* Mutation of connectFace: the face points at its first inner half-edge.
connectFaceFirst(m, inner_he) ==
    LET idx_face == Len(m.faces_)
    IN  [m EXCEPT !.faces_ = Append(@, Face(inner_he[1])),
                  !.half_edges_ =
                     [k \in DOMAIN @ |->
                        IF \E i \in DOMAIN inner_he : inner_he[i] = k - 1
                        THEN [@[k] EXCEPT !.idx_face_ = idx_face]
                        ELSE @[k]]]

\* Mutation of connectFace: the opposite of every inner half-edge gets the
\* face as well.
connectFaceBothSides(m, inner_he) ==
    LET idx_face == Len(m.faces_)
    IN  [m EXCEPT !.faces_ = Append(@, Face(inner_he[Len(inner_he)])),
                  !.half_edges_ =
                     [k \in DOMAIN @ |->
                        IF \E i \in DOMAIN inner_he :
                              inner_he[i] = k - 1 \/ getOppositeHalfEdgeIndex(inner_he[i]) = k - 1
                        THEN [@[k] EXCEPT !.idx_face_ = idx_face]
                        ELSE @[k]]]

connectFace(m, inner_he) ==
    LET idx_face == Len(m.faces_)
    IN  [m EXCEPT !.faces_ = Append(@, Face(inner_he[Len(inner_he)])),
                  !.half_edges_ =
                     [k \in DOMAIN @ |->
                        IF \E i \in DOMAIN inner_he : inner_he[i] = k - 1
                        THEN [@[k] EXCEPT !.idx_face_ = idx_face]
                        ELSE @[k]]]

\* Mutation of the manifold connectNewNew: the outgoing half-edge of b is set
\* to the inner half-edge bc.
connectNewNewManifoldOutgoingInner(m, idx_he_ab, idx_he_bc, idx_v_b) ==
    setOutgoingHalfEdgeIndex(
      connectPrevNext(connectPrevNext(m, idx_he_ab, idx_he_bc),
                      getOppositeHalfEdgeIndex(idx_he_bc),
                      getOppositeHalfEdgeIndex(idx_he_ab)),
      idx_v_b, idx_he_bc)

connectNewNewManifold(m, idx_he_ab, idx_he_bc, idx_v_b) ==
    LET idx_he_ba == getOppositeHalfEdgeIndex(idx_he_ab)
        idx_he_cb == getOppositeHalfEdgeIndex(idx_he_bc)
    IN  setOutgoingHalfEdgeIndex(
          connectPrevNext(connectPrevNext(m, idx_he_ab, idx_he_bc), idx_he_cb, idx_he_ba),
          idx_v_b, idx_he_ba)

\* Mutation of the non-manifold connectNewNew: the manifold version is taken
\* for a vertex that is not isolated too.
connectNewNewNonManifoldAsManifold(m, idx_he_ab, idx_he_bc, idx_v_b) ==
    connectNewNewManifold(m, idx_he_ab, idx_he_bc, idx_v_b)

connectNewNewNonManifold(m, idx_he_ab, idx_he_bc, idx_v_b) ==
    IF isIsolated(m, idx_v_b)
    THEN connectNewNewManifold(m, idx_he_ab, idx_he_bc, idx_v_b)
    ELSE LET idx_he_ba == getOppositeHalfEdgeIndex(idx_he_ab)
             idx_he_cb == getOppositeHalfEdgeIndex(idx_he_bc)
             idx_he_b_out == getOutgoingHalfEdgeIndex(m, idx_v_b)
             idx_he_b_out_prev == getPrevHalfEdgeIndex(m, idx_he_b_out)
         IN  connectPrevNext(
               connectPrevNext(
                 connectPrevNext(m, idx_he_ab, idx_he_bc),
                 idx_he_cb, idx_he_b_out),
               idx_he_b_out_prev, idx_he_ba)

connectNewNew(m, idx_he_ab, idx_he_bc, idx_v_b, is_manifold) ==
    IF is_manifold
    THEN connectNewNewManifold(m, idx_he_ab, idx_he_bc, idx_v_b)
    ELSE connectNewNewNonManifold(m, idx_he_ab, idx_he_bc, idx_v_b)

\* Mutation of connectNewOld: the outgoing half-edge of b is left as it was.
connectNewOldOutgoingKept(m, idx_he_ab, idx_he_bc, idx_v_b) ==
    connectPrevNext(connectPrevNext(m, idx_he_ab, idx_he_bc),
                    getPrevHalfEdgeIndex(m, idx_he_bc),
                    getOppositeHalfEdgeIndex(idx_he_ab))

connectNewOld(m, idx_he_ab, idx_he_bc, idx_v_b) ==
    LET idx_he_ba == getOppositeHalfEdgeIndex(idx_he_ab)
        idx_he_bc_prev == getPrevHalfEdgeIndex(m, idx_he_bc)
    IN  setOutgoingHalfEdgeIndex(
          connectPrevNext(connectPrevNext(m, idx_he_ab, idx_he_bc), idx_he_bc_prev, idx_he_ba),
          idx_v_b, idx_he_ba)

connectOldNew(m, idx_he_ab, idx_he_bc, idx_v_b) ==
    LET idx_he_cb == getOppositeHalfEdgeIndex(idx_he_bc)
        idx_he_ab_next == getNextHalfEdgeIndex(m, idx_he_ab)
    IN  setOutgoingHalfEdgeIndex(
          connectPrevNext(connectPrevNext(m, idx_he_ab, idx_he_bc), idx_he_cb, idx_he_ab_next),
          idx_v_b, idx_he_ab_next)

\* Result: the mesh and hang = TRUE when  while (++circ!=circ_end)  never ends.
\* Mutation of the non-manifold connectOldOld: the outgoing half-edge of b is
\* left as it was.
connectOldOldNonManifoldKept(m, idx_he_bc, idx_v_b) == [m |-> m, hang |-> FALSE]

connectOldOldNonManifold(m, idx_he_bc, idx_v_b) ==
    LET idx_he_b_out == getOutgoingHalfEdgeIndex(m, idx_v_b) IN
    IF idx_he_b_out # idx_he_bc
    THEN [m |-> m, hang |-> FALSE]
    ELSE LET round == circulatorRound("out", m, idx_he_b_out)
             seen == Tail(round.seq)
             IsFree(h) == isBoundaryHalfEdge(m, h)
             k == FirstIndex([position \in DOMAIN seen |-> IsFree(seen[position])])
         IN  IF k > 0
             THEN [m |-> setOutgoingHalfEdgeIndex(m, idx_v_b, seen[k]), hang |-> FALSE]
             ELSE [m |-> m, hang |-> ~round.closed]

connectOldOld(m, idx_he_bc, idx_v_b, is_manifold) ==
    IF is_manifold
    THEN [m |-> m, hang |-> FALSE]
    ELSE connectOldOldNonManifold(m, idx_he_bc, idx_v_b)

\* ----------------------------------------------------------------- addFace
\* for (i...) if (is_new [i]) inner_he [i] = addEdge (vertices [i], vertices [(i+1)%n])
RECURSIVE addNewEdges(_, _, _, _, _)
addNewEdges(m, vertices, inner_he, is_new, i) ==
    LET n == Len(vertices) IN
    IF i >= n THEN [m |-> m, inner_he |-> inner_he]
    ELSE IF At(is_new, i)
    THEN addNewEdges(addEdge(m, At(vertices, i), At(vertices, (i + 1) % n)), vertices,
                     [inner_he EXCEPT ![i + 1] = Len(m.half_edges_)], is_new, i + 1)
    ELSE addNewEdges(m, vertices, inner_he, is_new, i + 1)

\* The loop over checkTopology1: the out-parameters of every slot, and fail /
\* hang as soon as one check returns false or does not return.
RECURSIVE checkTopology1Loop(_, _, _, _, _, _)
\* The loop body after the call: r is what checkTopology1 gave for slot i.
checkTopology1Checked(m, vertices, inner_he, is_new, i, is_manifold, r) ==
    IF r.hang \/ ~r.ok
    THEN [ok |-> FALSE, hang |-> r.hang, inner_he |-> inner_he, is_new |-> is_new]
    ELSE checkTopology1Loop(m, vertices,
                            [inner_he EXCEPT ![i + 1] = r.idx_he_ab],
                            [is_new EXCEPT ![i + 1] = r.is_new_ab],
                            i + 1, is_manifold)

checkTopology1Loop(m, vertices, inner_he, is_new, i, is_manifold) ==
    LET n == Len(vertices) IN
    IF i >= n THEN [ok |-> TRUE, hang |-> FALSE, inner_he |-> inner_he, is_new |-> is_new]
    ELSE checkTopology1Checked(m, vertices, inner_he, is_new, i, is_manifold,
             checkTopology1(m, At(vertices, i), At(vertices, (i + 1) % n),
                            At(inner_he, i), At(is_new, i), is_manifold))

RECURSIVE checkTopology2Loop(_, _, _, _, _, _, _, _)
\* The loop body after the call: r is what checkTopology2 gave for slot i.
checkTopology2Checked(m, vertices, inner_he, is_new, make_adjacent, free_he, i, is_manifold, r) ==
    IF r.hang \/ ~r.ok
    THEN [ok |-> FALSE, hang |-> r.hang,
          make_adjacent |-> make_adjacent, free_he |-> free_he]
    ELSE checkTopology2Loop(m, vertices, inner_he, is_new,
            [make_adjacent EXCEPT ![i + 1] = r.make_adjacent_ab_bc],
            [free_he EXCEPT ![i + 1] = r.idx_free_half_edge],
            i + 1, is_manifold)

checkTopology2Loop(m, vertices, inner_he, is_new, make_adjacent, free_he, i, is_manifold) ==
    LET n == Len(vertices) IN
    IF i >= n THEN [ok |-> TRUE, hang |-> FALSE,
                    make_adjacent |-> make_adjacent, free_he |-> free_he]
    ELSE checkTopology2Checked(m, vertices, inner_he, is_new, make_adjacent, free_he, i,
             is_manifold,
             checkTopology2(m, At(inner_he, i), At(inner_he, (i + 1) % n),
                            At(is_new, i), At(is_new, (i + 1) % n),
                            isIsolated(m, At(vertices, (i + 1) % n)), is_manifold))

RECURSIVE makeAdjacentLoop(_, _, _, _, _)
makeAdjacentLoop(m, inner_he, make_adjacent, free_he, i) ==
    LET n == Len(inner_he) IN
    IF i >= n THEN m
    ELSE IF At(make_adjacent, i)
    THEN makeAdjacentLoop(
           makeAdjacent(m, At(inner_he, i), At(inner_he, (i + 1) % n), At(free_he, i)),
           inner_he, make_adjacent, free_he, i + 1)
    ELSE makeAdjacentLoop(m, inner_he, make_adjacent, free_he, i + 1)

\* The "Connect" loop; hang = TRUE when a connectOldOld does not return.
RECURSIVE connectLoop(_, _, _, _, _, _)
\* The body of the loop: the connect function the two flags select.
connectCorner(m, idx_he_ab, idx_he_bc, idx_v_b, is_new_ab, is_new_bc, is_manifold) ==
    IF is_new_ab /\ is_new_bc
    THEN [m |-> connectNewNew(m, idx_he_ab, idx_he_bc, idx_v_b, is_manifold),
          hang |-> FALSE]
    ELSE IF is_new_ab /\ ~is_new_bc
    THEN [m |-> connectNewOld(m, idx_he_ab, idx_he_bc, idx_v_b), hang |-> FALSE]
    ELSE IF ~is_new_ab /\ is_new_bc
    THEN [m |-> connectOldNew(m, idx_he_ab, idx_he_bc, idx_v_b), hang |-> FALSE]
    ELSE connectOldOld(m, idx_he_bc, idx_v_b, is_manifold)

\* The loop goes on from the mesh r.m the corner i left.
connectLoopNext(r, vertices, inner_he, is_new, i, is_manifold) ==
    IF r.hang THEN r
    ELSE connectLoop(r.m, vertices, inner_he, is_new, i + 1, is_manifold)

connectLoop(m, vertices, inner_he, is_new, i, is_manifold) ==
    LET n == Len(vertices)
        j == (i + 1) % n
    IN  IF i >= n THEN [m |-> m, hang |-> FALSE]
        ELSE connectLoopNext(
               connectCorner(m, At(inner_he, i), At(inner_he, j), At(vertices, j),
                             At(is_new, i), At(is_new, j), is_manifold),
               vertices, inner_he, is_new, i, is_manifold)

\* Result of a member function: the mesh it leaves, its return value and
\* st = "ok" (it returned), "hang" (it never returns).
Returned(m, ret) == [m |-> m, ret |-> ret, st |-> "ok"]
Hangs(m) == [m |-> m, ret |-> Invalid, st |-> "hang"]

\* addFaceImplBase from "Connect" on: c is the result of the connect loop.
addFaceConnected(c, inner_he) ==
    IF c.hang THEN Hangs(c.m)
    ELSE Returned(connectFace(c.m, inner_he), Len(c.m.faces_))

\* e: the mesh and inner_he after "Add new half-edges if needed".
addFaceConnect(e, vertices, is_new, is_manifold) ==
    addFaceConnected(connectLoop(e.m, vertices, e.inner_he, is_new, 0, is_manifold),
                     e.inner_he)

\* Mutation of addFaceImplBase: the new half-edges are added before the second
\* topology check has been read, and stay when that check refuses the face.
addFaceChecked2EdgesFirst(m, vertices, is_manifold, t1, t2) ==
    IF t2.hang THEN Hangs(m)
    ELSE IF ~t2.ok
    THEN Returned(addNewEdges(m, vertices, t1.inner_he, t1.is_new, 0).m, Invalid)
    ELSE addFaceConnect(
           addNewEdges(IF is_manifold THEN m
                       ELSE makeAdjacentLoop(m, t1.inner_he, t2.make_adjacent,
                                             t2.free_he, 0),
                       vertices, t1.inner_he, t1.is_new, 0),
           vertices, t1.is_new, is_manifold)

\* addFaceImplBase after the loop over checkTopology2 (result t2): return, or
\* make adjacent, add the new edges and connect.
addFaceChecked2(m, vertices, is_manifold, t1, t2) ==
    IF t2.hang THEN Hangs(m)
    ELSE IF ~t2.ok THEN Returned(m, Invalid)
    ELSE addFaceConnect(
           addNewEdges(IF is_manifold THEN m
                       ELSE makeAdjacentLoop(m, t1.inner_he, t2.make_adjacent,
                                             t2.free_he, 0),
                       vertices, t1.inner_he, t1.is_new, 0),
           vertices, t1.is_new, is_manifold)

\* addFaceImplBase after the loop over checkTopology1 (result t1).
addFaceChecked1(m, vertices, is_manifold, t1) ==
    IF t1.hang THEN Hangs(m)
    ELSE IF ~t1.ok THEN Returned(m, Invalid)
    ELSE addFaceChecked2(m, vertices, is_manifold, t1,
           checkTopology2Loop(m, vertices, t1.inner_he, t1.is_new,
                              [i \in 1..Len(vertices) |-> FALSE],
                              [i \in 1..Len(vertices) |-> Invalid], 0, is_manifold))

addFaceGeneral(m, vertices, is_manifold) ==
    addFaceChecked1(m, vertices, is_manifold,
      checkTopology1Loop(m, vertices, [i \in 1..Len(vertices) |-> Invalid],
                         [i \in 1..Len(vertices) |-> TRUE], 0, is_manifold))

addFaceAllIsolated(m, vertices, is_manifold) ==
    addFaceConnect(
      addNewEdges(m, vertices, [i \in 1..Len(vertices) |-> Invalid],
                  [i \in 1..Len(vertices) |-> TRUE], 0),
      vertices, [i \in 1..Len(vertices) |-> TRUE], is_manifold)

addFaceImplBase(m, vertices, is_manifold) ==
    LET n == Len(vertices) IN
    IF n < 3 THEN Returned(m, Invalid)
    ELSE IF \E i \in 1..n : ~isValidVertex(m, vertices[i])
    THEN Returned(m, Invalid)
    ELSE IF \E i, j \in 1..n : i # j /\ vertices[i] = vertices[j]
    THEN Returned(m, Invalid)
    ELSE IF \A i \in 1..n : isIsolated(m, vertices[i])
    THEN addFaceAllIsolated(m, vertices, is_manifold)
    ELSE addFaceGeneral(m, vertices, is_manifold)

\* -------------------------------------------------------------- addVertex
addVertex(m) == Returned([m EXCEPT !.vertices_ = Append(@, Vertex)], Len(m.vertices_))

\* -------------------------------------------------------------- deleteFace
\* Mutation of the manifold reconnectNBNB: no face around a vertex that is on
\* the boundary already is put on the stack.
reconnectNBNBManifoldNoCascade(m, idx_he_bc, idx_he_cb, idx_v_b, delete_faces) ==
    IF isBoundaryVertex(m, idx_v_b)
    THEN [m |-> m, delete_faces |-> delete_faces, hang |-> FALSE]
    ELSE [m |-> setOutgoingHalfEdgeIndex(m, idx_v_b, idx_he_bc),
          delete_faces |-> delete_faces, hang |-> FALSE]

\* reconnect and deleteFace hand on the mesh, the stack delete_faces (top at
\* the end) and hang = TRUE when a loop in them never ends.
reconnectNBNBManifold(m, idx_he_bc, idx_he_cb, idx_v_b, delete_faces) ==
    IF isBoundaryVertex(m, idx_v_b)
    THEN \* while (!isBoundary (circ.getTargetIndex ())) push (getFaceIndex ((circ++)...))
         LET round == circulatorRound("in", m, idx_he_cb)
             IsFree(h) == isBoundaryHalfEdge(m, h)
             k == FirstIndex([position \in DOMAIN round.seq |-> IsFree(round.seq[position])])
         IN  IF k = 0
             THEN [m |-> m, delete_faces |-> delete_faces, hang |-> TRUE]
             ELSE [m |-> m,
                   delete_faces |-> delete_faces \o
                       [j \in 1..(k - 1) |-> getFaceIndex(m, round.seq[j])],
                   hang |-> FALSE]
    ELSE [m |-> setOutgoingHalfEdgeIndex(m, idx_v_b, idx_he_bc),
          delete_faces |-> delete_faces, hang |-> FALSE]

reconnectNBNBNonManifold(m, idx_he_bc, idx_he_cb, idx_v_b, delete_faces) ==
    [m |-> IF ~isBoundaryVertex(m, idx_v_b)
           THEN setOutgoingHalfEdgeIndex(m, idx_v_b, idx_he_bc)
           ELSE m,
     delete_faces |-> delete_faces, hang |-> FALSE]

reconnectNBNB(m, idx_he_bc, idx_he_cb, idx_v_b, delete_faces, is_manifold) ==
    IF is_manifold
    THEN reconnectNBNBManifold(m, idx_he_bc, idx_he_cb, idx_v_b, delete_faces)
    ELSE reconnectNBNBNonManifold(m, idx_he_bc, idx_he_cb, idx_v_b, delete_faces)

\* Mutation of reconnect: when only the edge a-b is on the boundary it is not
\* marked as deleted.
reconnectBoundaryEdgeKept(m, idx_he_ab, idx_he_bc, is_boundary_ba, is_boundary_cb, delete_faces, is_manifold) ==
    LET idx_he_ba == getOppositeHalfEdgeIndex(idx_he_ab)
        idx_he_cb == getOppositeHalfEdgeIndex(idx_he_bc)
        idx_v_b == getTerminatingVertexIndex(m, idx_he_ab)
        idx_he_cb_next == getNextHalfEdgeIndex(m, idx_he_cb)
        plain(mm) == [m |-> mm, delete_faces |-> delete_faces, hang |-> FALSE]
    IN  IF is_boundary_ba /\ is_boundary_cb
        THEN LET m1 == IF idx_he_cb_next = idx_he_ba
                       THEN markDeletedVertex(m, idx_v_b)
                       ELSE setOutgoingHalfEdgeIndex(
                              connectPrevNext(m, getPrevHalfEdgeIndex(m, idx_he_ba),
                                              idx_he_cb_next),
                              idx_v_b, idx_he_cb_next)
             IN  plain(markDeletedHalfEdge(markDeletedHalfEdge(m1, idx_he_ab), idx_he_ba))
        ELSE IF is_boundary_ba /\ ~is_boundary_cb
        THEN LET m1 == setOutgoingHalfEdgeIndex(
                         connectPrevNext(m, getPrevHalfEdgeIndex(m, idx_he_ba), idx_he_bc),
                         idx_v_b, idx_he_bc)
             IN  plain(m1)
        ELSE IF ~is_boundary_ba /\ is_boundary_cb
        THEN plain(setOutgoingHalfEdgeIndex(
                     connectPrevNext(m, idx_he_ab, idx_he_cb_next),
                     idx_v_b, idx_he_cb_next))
        ELSE reconnectNBNB(m, idx_he_bc, idx_he_cb, idx_v_b, delete_faces, is_manifold)

\* Mutation of reconnect: of an edge on the boundary only the inner half-edge
\* is marked as deleted.
reconnectOneHalfEdgeMarked(m, idx_he_ab, idx_he_bc, is_boundary_ba, is_boundary_cb, delete_faces, is_manifold) ==
    LET idx_he_ba == getOppositeHalfEdgeIndex(idx_he_ab)
        idx_he_cb == getOppositeHalfEdgeIndex(idx_he_bc)
        idx_v_b == getTerminatingVertexIndex(m, idx_he_ab)
        idx_he_cb_next == getNextHalfEdgeIndex(m, idx_he_cb)
        plain(mm) == [m |-> mm, delete_faces |-> delete_faces, hang |-> FALSE]
    IN  IF is_boundary_ba /\ is_boundary_cb
        THEN LET m1 == IF idx_he_cb_next = idx_he_ba
                       THEN markDeletedVertex(m, idx_v_b)
                       ELSE setOutgoingHalfEdgeIndex(
                              connectPrevNext(m, getPrevHalfEdgeIndex(m, idx_he_ba),
                                              idx_he_cb_next),
                              idx_v_b, idx_he_cb_next)
             IN  plain(markDeletedHalfEdge(m1, idx_he_ab))
        ELSE IF is_boundary_ba /\ ~is_boundary_cb
        THEN LET m1 == setOutgoingHalfEdgeIndex(
                         connectPrevNext(m, getPrevHalfEdgeIndex(m, idx_he_ba), idx_he_bc),
                         idx_v_b, idx_he_bc)
             IN  plain(markDeletedHalfEdge(m1, idx_he_ab))
        ELSE IF ~is_boundary_ba /\ is_boundary_cb
        THEN plain(setOutgoingHalfEdgeIndex(
                     connectPrevNext(m, idx_he_ab, idx_he_cb_next),
                     idx_v_b, idx_he_cb_next))
        ELSE reconnectNBNB(m, idx_he_bc, idx_he_cb, idx_v_b, delete_faces, is_manifold)

\* Mutation of reconnect: when only the edge b-c is on the boundary, the
\* half-edge b-a, not a-b, is connected to the next of c-b.
reconnectOppositeLinked(m, idx_he_ab, idx_he_bc, is_boundary_ba, is_boundary_cb, delete_faces, is_manifold) ==
    LET idx_he_ba == getOppositeHalfEdgeIndex(idx_he_ab)
        idx_he_cb == getOppositeHalfEdgeIndex(idx_he_bc)
        idx_v_b == getTerminatingVertexIndex(m, idx_he_ab)
        idx_he_cb_next == getNextHalfEdgeIndex(m, idx_he_cb)
        plain(mm) == [m |-> mm, delete_faces |-> delete_faces, hang |-> FALSE]
    IN  IF is_boundary_ba /\ is_boundary_cb
        THEN LET m1 == IF idx_he_cb_next = idx_he_ba
                       THEN markDeletedVertex(m, idx_v_b)
                       ELSE setOutgoingHalfEdgeIndex(
                              connectPrevNext(m, getPrevHalfEdgeIndex(m, idx_he_ba),
                                              idx_he_cb_next),
                              idx_v_b, idx_he_cb_next)
             IN  plain(markDeletedHalfEdge(markDeletedHalfEdge(m1, idx_he_ab), idx_he_ba))
        ELSE IF is_boundary_ba /\ ~is_boundary_cb
        THEN LET m1 == setOutgoingHalfEdgeIndex(
                         connectPrevNext(m, getPrevHalfEdgeIndex(m, idx_he_ba), idx_he_bc),
                         idx_v_b, idx_he_bc)
             IN  plain(markDeletedHalfEdge(markDeletedHalfEdge(m1, idx_he_ab), idx_he_ba))
        ELSE IF ~is_boundary_ba /\ is_boundary_cb
        THEN plain(setOutgoingHalfEdgeIndex(
                     connectPrevNext(m, idx_he_ba, idx_he_cb_next),
                     idx_v_b, idx_he_cb_next))
        ELSE reconnectNBNB(m, idx_he_bc, idx_he_cb, idx_v_b, delete_faces, is_manifold)

\* Mutation of reconnect: when only the edge a-b is on the boundary, the
\* half-edge before b-a is not connected to b-c.
reconnectBoundaryNotRelinked(m, idx_he_ab, idx_he_bc, is_boundary_ba, is_boundary_cb, delete_faces, is_manifold) ==
    LET idx_he_ba == getOppositeHalfEdgeIndex(idx_he_ab)
        idx_he_cb == getOppositeHalfEdgeIndex(idx_he_bc)
        idx_v_b == getTerminatingVertexIndex(m, idx_he_ab)
        idx_he_cb_next == getNextHalfEdgeIndex(m, idx_he_cb)
        plain(mm) == [m |-> mm, delete_faces |-> delete_faces, hang |-> FALSE]
    IN  IF is_boundary_ba /\ is_boundary_cb
        THEN LET m1 == IF idx_he_cb_next = idx_he_ba
                       THEN markDeletedVertex(m, idx_v_b)
                       ELSE setOutgoingHalfEdgeIndex(
                              connectPrevNext(m, getPrevHalfEdgeIndex(m, idx_he_ba),
                                              idx_he_cb_next),
                              idx_v_b, idx_he_cb_next)
             IN  plain(markDeletedHalfEdge(markDeletedHalfEdge(m1, idx_he_ab), idx_he_ba))
        ELSE IF is_boundary_ba /\ ~is_boundary_cb
        THEN LET m1 == setOutgoingHalfEdgeIndex(m, idx_v_b, idx_he_bc)
             IN  plain(markDeletedHalfEdge(markDeletedHalfEdge(m1, idx_he_ab), idx_he_ba))
        ELSE IF ~is_boundary_ba /\ is_boundary_cb
        THEN plain(setOutgoingHalfEdgeIndex(
                     connectPrevNext(m, idx_he_ab, idx_he_cb_next),
                     idx_v_b, idx_he_cb_next))
        ELSE reconnectNBNB(m, idx_he_bc, idx_he_cb, idx_v_b, delete_faces, is_manifold)

\* reconnect (idx_he_ab, idx_he_bc, is_boundary_ba, is_boundary_cb, delete_faces).
reconnect(m, idx_he_ab, idx_he_bc, is_boundary_ba, is_boundary_cb, delete_faces, is_manifold) ==
    LET idx_he_ba == getOppositeHalfEdgeIndex(idx_he_ab)
        idx_he_cb == getOppositeHalfEdgeIndex(idx_he_bc)
        idx_v_b == getTerminatingVertexIndex(m, idx_he_ab)
        idx_he_cb_next == getNextHalfEdgeIndex(m, idx_he_cb)
        plain(mm) == [m |-> mm, delete_faces |-> delete_faces, hang |-> FALSE]
    IN  IF is_boundary_ba /\ is_boundary_cb
        THEN LET m1 == IF idx_he_cb_next = idx_he_ba
                       THEN markDeletedVertex(m, idx_v_b)
                       ELSE setOutgoingHalfEdgeIndex(
                              connectPrevNext(m, getPrevHalfEdgeIndex(m, idx_he_ba),
                                              idx_he_cb_next),
                              idx_v_b, idx_he_cb_next)
             IN  plain(markDeletedHalfEdge(markDeletedHalfEdge(m1, idx_he_ab), idx_he_ba))
        ELSE IF is_boundary_ba /\ ~is_boundary_cb
        THEN LET m1 == setOutgoingHalfEdgeIndex(
                         connectPrevNext(m, getPrevHalfEdgeIndex(m, idx_he_ba), idx_he_bc),
                         idx_v_b, idx_he_bc)
             IN  plain(markDeletedHalfEdge(markDeletedHalfEdge(m1, idx_he_ab), idx_he_ba))
        ELSE IF ~is_boundary_ba /\ is_boundary_cb
        THEN plain(setOutgoingHalfEdgeIndex(
                     connectPrevNext(m, idx_he_ab, idx_he_cb_next),
                     idx_v_b, idx_he_cb_next))
        ELSE reconnectNBNB(m, idx_he_bc, idx_he_cb, idx_v_b, delete_faces, is_manifold)

\* for (i...) { reconnect (inner_he [i], inner_he [(i+1)%n], ...);
\*              getHalfEdge (inner_he [i]).idx_face_.invalidate (); }
RECURSIVE reconnectLoop(_, _, _, _, _, _)
\* Mutation of the loop of the non-manifold deleteFace: the face index of
\* inner_he [i] is not invalidated.
reconnectLoopNextFaceKept(r, inner_he, is_boundary, i, is_manifold) ==
    IF r.hang THEN r
    ELSE reconnectLoop(r.m, inner_he, is_boundary, r.delete_faces, i + 1, is_manifold)

\* After reconnect (result r) the face of inner_he [i] is invalidated and the
\* loop goes on.
reconnectLoopNext(r, inner_he, is_boundary, i, is_manifold) ==
    IF r.hang THEN r
    ELSE reconnectLoop(setFaceIndex(r.m, At(inner_he, i), Invalid),
                       inner_he, is_boundary, r.delete_faces, i + 1, is_manifold)

reconnectLoop(m, inner_he, is_boundary, delete_faces, i, is_manifold) ==
    LET n == Len(inner_he) IN
    IF i >= n THEN [m |-> m, delete_faces |-> delete_faces, hang |-> FALSE]
    ELSE reconnectLoopNext(
           reconnect(m, At(inner_he, i), At(inner_he, (i + 1) % n),
                     At(is_boundary, i), At(is_boundary, (i + 1) % n),
                     delete_faces, is_manifold),
           inner_he, is_boundary, i, is_manifold)

\* Mutation of the non-manifold deleteFace: the face is not marked as deleted
\* after its half-edges are reconnected.
deleteFaceReconnectedNotMarked(r, idx_face) == r

\* deleteFace (idx_face, delete_faces, boost::false_type), which calls the
\* reconnect of the policy of the mesh.  The end: after the reconnect loop
\* (result r) the face is marked as deleted.
deleteFaceReconnected(r, idx_face) ==
    IF r.hang THEN r
    ELSE [m |-> markDeletedFace(r.m, idx_face),
          delete_faces |-> r.delete_faces, hang |-> FALSE]

\* round: the inner half-edges the first loop has stored in inner_he, with
\* is_boundary for the opposite of each.
deleteFaceCollected(m, idx_face, round, delete_faces, is_manifold) ==
    IF ~round.closed
    THEN [m |-> m, delete_faces |-> delete_faces, hang |-> TRUE]
    ELSE deleteFaceReconnected(
           reconnectLoop(m, round.seq,
                         [k \in 1..Len(round.seq) |->
                            isBoundaryHalfEdge(m, getOppositeHalfEdgeIndex(round.seq[k]))],
                         delete_faces, 0, is_manifold),
           idx_face)

deleteFaceNonManifold(m, idx_face, delete_faces, is_manifold) ==
    IF isDeletedFace(m, idx_face)
    THEN [m |-> m, delete_faces |-> delete_faces, hang |-> FALSE]
    ELSE deleteFaceCollected(m, idx_face,
           circulatorRound("inner", m, getInnerHalfEdgeIndex(m, idx_face)),
           delete_faces, is_manifold)

\* deleteFace (idx_face, delete_faces, boost::true_type): the work list.
RECURSIVE deleteFaceWorkList(_, _)
\* r: the mesh and the stack one pass of the while loop has left.
deleteFaceWorkListNext(r) ==
    IF r.hang THEN r ELSE deleteFaceWorkList(r.m, r.delete_faces)

deleteFaceWorkList(m, delete_faces) ==
    IF delete_faces = <<>> THEN [m |-> m, delete_faces |-> <<>>, hang |-> FALSE]
    ELSE deleteFaceWorkListNext(
           deleteFaceNonManifold(m, delete_faces[Len(delete_faces)],
                                 SubSeq(delete_faces, 1, Len(delete_faces) - 1), TRUE))

deleteFaceManifold(m, idx_face) == deleteFaceWorkList(m, <<idx_face>>)

\* What the public deleteFace hands back once the policy's deleteFace is done.
deleteFaceResult(r) == IF r.hang THEN Hangs(r.m) ELSE Returned(r.m, Invalid)

\* The public deleteFace (const FaceIndex&), for a valid index.
deleteFace(m, idx_face, is_manifold) ==
    IF isDeletedFace(m, idx_face) THEN Returned(m, Invalid)
    ELSE deleteFaceResult(IF is_manifold
                          THEN deleteFaceManifold(m, idx_face)
                          ELSE deleteFaceNonManifold(m, idx_face, <<>>, FALSE))

\* -------------------------------------------------------------- deleteEdge
\* Mutation of a branch of deleteEdge: the half-edge is marked whether it has
\* a face or not, and no face is deleted.
deleteEdgeSideMarked(m, idx_he, is_manifold) ==
    Returned(markDeletedHalfEdge(m, idx_he), Invalid)

\* One branch of deleteEdge on the half-edge idx_he.
deleteEdgeSide(m, idx_he, is_manifold) ==
    IF isBoundaryHalfEdge(m, idx_he)
    THEN Returned(markDeletedHalfEdge(m, idx_he), Invalid)
    ELSE deleteFace(m, getFaceIndex(m, idx_he), is_manifold)

\* Mutation of deleteEdge (HalfEdgeIndex): the branch on the opposite
\* half-edge is left out.
deleteEdgeOppositeSkipped(r1, opposite, is_manifold) == r1

\* The second branch, on the opposite half-edge, in the mesh the first left.
deleteEdgeOpposite(r1, opposite, is_manifold) ==
    IF r1.st # "ok" THEN r1 ELSE deleteEdgeSide(r1.m, opposite, is_manifold)

\* Mutation of deleteEdge (HalfEdgeIndex): only the branch on the half-edge
\* itself.
deleteEdgeHalfEdgeOneSide(m, idx_he, is_manifold) ==
    IF isDeletedHalfEdge(m, idx_he) THEN Returned(m, Invalid)
    ELSE deleteEdgeSide(m, idx_he, is_manifold)

deleteEdgeHalfEdge(m, idx_he, is_manifold) ==
    IF isDeletedHalfEdge(m, idx_he) THEN Returned(m, Invalid)
    ELSE deleteEdgeOpposite(deleteEdgeSide(m, idx_he, is_manifold),
                            getOppositeHalfEdgeIndex(idx_he), is_manifold)

deleteEdge(m, idx_edge, is_manifold) ==
    IF isDeletedEdge(m, idx_edge) THEN Returned(m, Invalid)
    ELSE deleteEdgeHalfEdge(m, toHalfEdgeIndex(idx_edge, TRUE), is_manifold)

\* ------------------------------------------------------------ deleteVertex
\* deleteFace on every collected index. An invalid index (the face of a
\* boundary half-edge) breaks the precondition of deleteFace: the assertion
\* aborts, or isDeleted reads faces_[-1]; oob_deleted = TRUE is the build in
\* which that read looks deleted and the call returns at once.
\* Mutation of the loop of deleteVertex: it ends after the first deleteFace.
deleteFacesNextOnce(r, fi, oob_deleted, is_manifold) == r

RECURSIVE deleteFaces(_, _, _, _)
\* r: the result of deleteFace on the first index of fi.
deleteFacesNext(r, fi, oob_deleted, is_manifold) ==
    IF r.st # "ok" THEN r
    ELSE deleteFaces(r.m, Tail(fi), oob_deleted, is_manifold)

deleteFaces(m, fi, oob_deleted, is_manifold) ==
    IF fi = <<>> THEN Returned(m, Invalid)
    ELSE IF ~isValidFace(m, Head(fi))
    THEN IF oob_deleted THEN deleteFaces(m, Tail(fi), oob_deleted, is_manifold)
         ELSE [m |-> m, ret |-> Invalid, st |-> "abort"]
    ELSE deleteFacesNext(deleteFace(m, Head(fi), is_manifold), fi, oob_deleted,
                         is_manifold)

\* round: the outgoing half-edges the FaceAroundVertexCirculator has visited.
deleteVertexCollected(m, round, oob_deleted, is_manifold) ==
    IF ~round.closed THEN Hangs(m)
    ELSE deleteFaces(m, [k \in 1..Len(round.seq) |-> getFaceIndex(m, round.seq[k])],
                     oob_deleted, is_manifold)

deleteVertex(m, idx_vertex, oob_deleted, is_manifold) ==
    IF isDeletedVertex(m, idx_vertex) THEN Returned(m, Invalid)
    ELSE deleteVertexCollected(m,
           circulatorRound("out", m, getOutgoingHalfEdgeIndex(m, idx_vertex)),
           oob_deleted, is_manifold)

\* ----------------------------------------------------------------- cleanUp
\* remove <...> (elements, data_cloud): the kept elements in their old order,
\* and for every old index the new index or the invalid index.
\* Mutation of remove: no element is dropped and every index stays.
removeNothing(elements, is_deleted) ==
    [elements |-> elements, new_indices |-> [k \in 1..Len(elements) |-> k - 1]]

\* is_deleted [k]: isDeleted of the element at position k.
remove(elements, is_deleted) ==
    LET kept == {k \in 1..Len(elements) : ~is_deleted[k]}
        Place(k) == Cardinality({j \in kept : j < k})
    IN  [elements |-> [i \in 1..Cardinality(kept) |->
                         elements[CHOOSE k \in kept : Place(k) = i - 1]],
         new_indices |-> [k \in 1..Len(elements) |->
                            IF is_deleted[k] THEN Invalid ELSE Place(k)]]

\* Mutation of isDeleted (VertexIndex) as remove uses it: no vertex is dropped.
IsDeletedVertexElementNever(e) == FALSE

IsDeletedVertexElement(e) == e.idx_outgoing_half_edge_ < 0
IsDeletedHalfEdgeElement(e) == e.idx_terminating_vertex_ < 0
IsDeletedFaceElement(e) == e.idx_inner_half_edge_ < 0

\* new_indices [idx.get ()]: defined only inside the index vector.
InRange(new_indices, idx) == idx >= 0 /\ idx < Len(new_indices)

\* Mutation of adjustHalfEdge: the index of the previous half-edge is left as
\* it was before the compaction.
adjustHalfEdgeStalePrev(e, new_vertex_indices, new_half_edge_indices, new_face_indices) ==
    [idx_terminating_vertex_ |-> At(new_vertex_indices, e.idx_terminating_vertex_),
     idx_next_half_edge_ |-> At(new_half_edge_indices, e.idx_next_half_edge_),
     idx_prev_half_edge_ |-> e.idx_prev_half_edge_,
     idx_face_ |-> IF e.idx_face_ >= 0 THEN At(new_face_indices, e.idx_face_)
                   ELSE e.idx_face_]

\* Body of the loop of cleanUp that adjusts the indices of a half-edge.
adjustHalfEdge(e, new_vertex_indices, new_half_edge_indices, new_face_indices) ==
    [idx_terminating_vertex_ |-> At(new_vertex_indices, e.idx_terminating_vertex_),
     idx_next_half_edge_ |-> At(new_half_edge_indices, e.idx_next_half_edge_),
     idx_prev_half_edge_ |-> At(new_half_edge_indices, e.idx_prev_half_edge_),
     idx_face_ |-> IF e.idx_face_ >= 0 THEN At(new_face_indices, e.idx_face_)
                   ELSE e.idx_face_]

cleanUp(m) ==
    LET rv == remove(m.vertices_, [k \in DOMAIN m.vertices_ |-> IsDeletedVertexElement(m.vertices_[k])])
        rh == remove(m.half_edges_, [k \in DOMAIN m.half_edges_ |-> IsDeletedHalfEdgeElement(m.half_edges_[k])])
        rf == remove(m.faces_, [k \in DOMAIN m.faces_ |-> IsDeletedFaceElement(m.faces_[k])])
        new_vertex_indices == rv.new_indices
        new_half_edge_indices == rh.new_indices
        new_face_indices == rf.new_indices
        \* An index read outside its index vector is undefined behaviour.
        out_of_range ==
            \/ \E k \in DOMAIN rv.elements :
                  /\ rv.elements[k].idx_outgoing_half_edge_ >= 0
                  /\ ~InRange(new_half_edge_indices, rv.elements[k].idx_outgoing_half_edge_)
            \/ \E k \in DOMAIN rh.elements :
                  \/ ~InRange(new_vertex_indices, rh.elements[k].idx_terminating_vertex_)
                  \/ ~InRange(new_half_edge_indices, rh.elements[k].idx_next_half_edge_)
                  \/ ~InRange(new_half_edge_indices, rh.elements[k].idx_prev_half_edge_)
                  \/ /\ rh.elements[k].idx_face_ >= 0
                     /\ ~InRange(new_face_indices, rh.elements[k].idx_face_)
            \/ \E k \in DOMAIN rf.elements :
                  ~InRange(new_half_edge_indices, rf.elements[k].idx_inner_half_edge_)
        vertices_new ==
            [k \in DOMAIN rv.elements |->
               IF rv.elements[k].idx_outgoing_half_edge_ >= 0
               THEN [idx_outgoing_half_edge_ |->
                       At(new_half_edge_indices, rv.elements[k].idx_outgoing_half_edge_)]
               ELSE rv.elements[k]]
        half_edges_new ==
            [k \in DOMAIN rh.elements |->
               adjustHalfEdge(rh.elements[k], new_vertex_indices,
                              new_half_edge_indices, new_face_indices)]
        faces_new ==
            [k \in DOMAIN rf.elements |->
               [idx_inner_half_edge_ |->
                  At(new_half_edge_indices, rf.elements[k].idx_inner_half_edge_)]]
    IN  IF out_of_range
        THEN [m |-> Mesh(rv.elements, rh.elements, rf.elements), ret |-> Invalid,
              st |-> "abort"]
        ELSE Returned(Mesh(vertices_new, half_edges_new, faces_new), Invalid)

\* -------------------------------------------------------------- isManifold
\* isManifold (VertexIndex) and isManifold () hand back a set of outcomes:
\* ret with st = "ok", or st = "hang" for a loop that never ends, or
\* st = "abort".  On a vertex without outgoing half-edge the non-manifold
\* version calls isBoundary on the invalid half-edge index: the assertion
\* aborts, or half_edges_ [-1] is read and either answer can come back.
\* Mutation of the non-manifold isManifold (VertexIndex): the circulator is
\* not incremented by the first test, and the loop starts at the outgoing
\* half-edge of the vertex.
isManifoldVertexNonManifoldNoIncrement(m, idx_vertex) ==
    IF ~isValidHalfEdge(m, getOutgoingHalfEdgeIndex(m, idx_vertex))
    THEN {[ret |-> FALSE, st |-> "abort"],
          [ret |-> TRUE, st |-> "ok"], [ret |-> FALSE, st |-> "ok"]}
    ELSE {[ret |-> ~isBoundaryHalfEdge(m, getOutgoingHalfEdgeIndex(m, idx_vertex)),
           st |-> "ok"]}

isManifoldVertexNonManifold(m, idx_vertex) ==
    IF ~isValidHalfEdge(m, getOutgoingHalfEdgeIndex(m, idx_vertex))
    THEN {[ret |-> FALSE, st |-> "abort"],
          [ret |-> TRUE, st |-> "ok"], [ret |-> FALSE, st |-> "ok"]}
    ELSE LET round == circulatorRound("out", m, getOutgoingHalfEdgeIndex(m, idx_vertex))
             seen == IF Len(round.seq) = 1 THEN round.seq ELSE Tail(round.seq)
         IN  IF ~isBoundaryHalfEdge(m, round.seq[1])
             THEN {[ret |-> TRUE, st |-> "ok"]}
             ELSE IF \E k \in DOMAIN seen : isBoundaryHalfEdge(m, seen[k])
             THEN {[ret |-> FALSE, st |-> "ok"]}
             ELSE IF ~round.closed THEN {[ret |-> FALSE, st |-> "hang"]}
             ELSE {[ret |-> TRUE, st |-> "ok"]}

isManifoldVertex(m, idx_vertex, is_manifold) ==
    IF is_manifold THEN {[ret |-> TRUE, st |-> "ok"]}
    ELSE isManifoldVertexNonManifold(m, idx_vertex)

\* for (i...) if (!this->isManifold (VertexIndex (i))) return (false);
RECURSIVE isManifoldLoop(_, _)
isManifoldLoop(m, i) ==
    IF i >= sizeVertices(m) THEN {[ret |-> TRUE, st |-> "ok"]}
    ELSE UNION {IF o.st = "ok" /\ o.ret THEN isManifoldLoop(m, i + 1) ELSE {o} :
                  o \in isManifoldVertexNonManifold(m, i)}

isManifold(m, is_manifold) ==
    IF is_manifold THEN {[ret |-> TRUE, st |-> "ok"]} ELSE isManifoldLoop(m, 0)

\* ------------------------------------------------------ isBoundary (face)
\* The answers have ret, the value returned, and st = "ok", or st = "hang"
\* when the loop over the circulator never ends.
\* Mutation of isBoundary (FaceIndex, check_vertices): only the first vertex
\* of the circulator is looked at.
isBoundaryFaceVerticesFirstOnly(m, idx_face) ==
    [ret |-> isBoundaryVertex(m, getTerminatingVertexIndex(m, getInnerHalfEdgeIndex(m, idx_face))),
     st |-> "ok"]

\* isBoundary (idx_face, boost::true_type): the vertex-around-face circulator
\* starts at the inner half-edge of the face, has the terminating vertex of
\* its half-edge as target and steps to the next half-edge.
isBoundaryFaceVertices(m, idx_face) ==
    LET round == circulatorRound("inner", m, getInnerHalfEdgeIndex(m, idx_face))
        k == FirstIndex([position \in DOMAIN round.seq |->
                           isBoundaryVertex(m, getTerminatingVertexIndex(m, round.seq[position]))])
    IN  IF k > 0 THEN [ret |-> TRUE, st |-> "ok"]
        ELSE [ret |-> FALSE, st |-> IF round.closed THEN "ok" ELSE "hang"]

\* isBoundary (idx_face, boost::false_type): the outer-half-edge-around-face
\* circulator has the opposite of the inner half-edge as target.
isBoundaryFaceEdges(m, idx_face) ==
    LET round == circulatorRound("inner", m, getInnerHalfEdgeIndex(m, idx_face))
        k == FirstIndex([position \in DOMAIN round.seq |->
                           isBoundaryHalfEdge(m, getOppositeHalfEdgeIndex(round.seq[position]))])
    IN  IF k > 0 THEN [ret |-> TRUE, st |-> "ok"]
        ELSE [ret |-> FALSE, st |-> IF round.closed THEN "ok" ELSE "hang"]

\* isBoundary <CheckVerticesT> (idx_face); isBoundary (idx_face) is the call
\* with CheckVerticesT = true.
isBoundaryFace(m, idx_face, check_vertices) ==
    IF check_vertices THEN isBoundaryFaceVertices(m, idx_face)
    ELSE isBoundaryFaceEdges(m, idx_face)

\* ------------------------------------------------------------ mesh data
\* The data of an element: the default-constructed value the calls have as
\* their default argument, and what a read outside a data cloud gives.
VertexData == "VertexData ()"
HalfEdgeData == "HalfEdgeData ()"
EdgeData == "EdgeData ()"
FaceData == "FaceData ()"
OutOfCloud == "?"

addData(cloud, data, has_data) == IF has_data THEN Append(cloud, data) ELSE cloud

\* addData once for each of n elements that a call has pushed back.
RECURSIVE addDataTimes(_, _, _, _)
addDataTimes(cloud, data, has_data, n) ==
    IF n <= 0 THEN cloud
    ELSE addDataTimes(addData(cloud, data, has_data), data, has_data, n - 1)

\* std::vector::resize (n, value).
resize(elements, n, value) ==
    [k \in 1..n |-> IF k <= Len(elements) THEN elements[k] ELSE value]

\* resizeData: with data, resize is called on the argument data and not on
\* data_cloud; without data nothing is done.
resizeData(data_cloud, n, data, has_data) == data_cloud

clearData(cloud, has_data) == IF has_data THEN <<>> ELSE cloud

\* What remove leaves in data_cloud: the data of the elements that are kept,
\* in their order, resized to their number.
removeData(data_cloud, is_deleted, has_data) ==
    IF ~has_data THEN data_cloud
    ELSE remove([k \in DOMAIN is_deleted |->
                   IF k <= Len(data_cloud) THEN data_cloud[k] ELSE OutOfCloud],
                is_deleted).elements

\* remove asserts elements.size () == data_cloud.size () when there is data.
removeAsserts(data_cloud, is_deleted, has_data) ==
    has_data /\ Len(data_cloud) # Len(is_deleted)

\* cleanUp, "Remove deleted edge data": the data of the edges whose first
\* half-edge is kept, then resize (sizeEdges ()).
cleanUpEdgeData(cloud, is_deleted, has_data) ==
    IF ~has_data THEN cloud
    ELSE resize(remove([e \in 1..(Len(is_deleted) \div 2) |->
                          IF e <= Len(cloud) THEN cloud[e] ELSE OutOfCloud],
                       [e \in 1..(Len(is_deleted) \div 2) |-> is_deleted[2 * e - 1]]).elements,
                Cardinality({k \in DOMAIN is_deleted : ~is_deleted[k]}) \div 2,
                EdgeData)

\* ------------------------------------------------------------- the machine
M == Mesh(vertices_, half_edges_, faces_)

\* The caller builds one of four scenes.  "tetrahedron": the four faces of a
\* closed tetrahedron on the vertices 0..3 and a fifth triangle on the edge
\* 1-2 of the same orientation as <<0, 1, 2>>.  "fan": three triangles around
\* vertex 0 (the outer two alone meet in vertex 0 only) and a quadrilateral
\* along their rim.  "pyramid": four triangles that close around vertex 0.
\* "star": three triangles that meet in vertex 0 only, and a
\* fourth between two of them.  The smaller scenes stay under the bounds by the
\* vertices and edges they have no use for.
Scenes == {"tetrahedron", "fan", "pyramid", "star"}

SceneVertices ==
    CASE scene = "tetrahedron" -> MaxVertices - 3
      [] scene = "fan" -> MaxVertices - 2
      [] scene = "pyramid" -> MaxVertices - 2
      [] scene = "triangle" -> MaxVertices - 4
      [] OTHER -> MaxVertices

SceneEdges ==
    CASE scene = "tetrahedron" -> MaxEdges - 4
      [] scene = "fan" -> MaxEdges - 3
      [] scene = "pyramid" -> MaxEdges - 2
      [] scene = "triangle" -> MaxEdges - 7
      [] OTHER -> MaxEdges

SceneLists ==
    CASE scene = "tetrahedron" ->
           {<<0, 1, 2>>, <<0, 3, 1>>, <<1, 3, 2>>, <<0, 2, 3>>, <<3, 1, 2>>}
      [] scene = "fan" ->
           {<<0, 1, 2>>, <<0, 2, 3>>, <<0, 3, 4>>, <<2, 1, 4, 3>>}
      [] scene = "pyramid" ->
           {<<0, 1, 2>>, <<0, 2, 3>>, <<0, 3, 4>>, <<0, 4, 1>>}
      [] scene = "triangle" ->
           {<<0, 1, 2>>}
      [] OTHER ->
           {<<0, 1, 2>>, <<0, 3, 4>>, <<0, 5, 6>>, <<1, 0, 6>>}

\* Vertex lists handed to addFace: those of the scene, and lists addFace has to
\* refuse whatever the mesh is: too short, with a vertex twice, with an index
\* that is not valid.
VertexLists ==
    SceneLists \cup {<<0, 1>>, <<0, 1, 0>>, <<0, 1, Len(vertices_)>>}

\* The mesh after construction, without its traits.
Constructed ==
    /\ vertices_ = <<>>
    /\ half_edges_ = <<>>
    /\ faces_ = <<>>
    /\ vertex_data_cloud_ = <<>>
    /\ half_edge_data_cloud_ = <<>>
    /\ edge_data_cloud_ = <<>>
    /\ face_data_cloud_ = <<>>
    /\ IsManifold \in BOOLEAN
    /\ status = "ok"
    /\ cleanUps = 0
    /\ resizes = 0

\* A mesh with data for every kind of element builds one of the scenes.
Init ==
    /\ Constructed
    /\ HasVertexData = TRUE
    /\ HasHalfEdgeData = TRUE
    /\ HasEdgeData = TRUE
    /\ HasFaceData = TRUE
    /\ scene \in Scenes

\* The call of op ended as r says.
Ends(op, r) ==
    /\ vertices_' = r.m.vertices_
    /\ half_edges_' = r.m.half_edges_
    /\ faces_' = r.m.faces_
    /\ status' = r.st
    /\ cleanUps' = IF op = "cleanUp" THEN cleanUps + 1 ELSE cleanUps
    /\ resizes' = IF op \in {"resize", "clear"} THEN resizes + 1 ELSE resizes
    /\ UNCHANGED <<IsManifold, scene>>

\* The data clouds the call leaves.
EndsWithData(vertex_data_cloud, half_edge_data_cloud, edge_data_cloud, face_data_cloud) ==
    /\ vertex_data_cloud_' = vertex_data_cloud
    /\ half_edge_data_cloud_' = half_edge_data_cloud
    /\ edge_data_cloud_' = edge_data_cloud
    /\ face_data_cloud_' = face_data_cloud
    /\ UNCHANGED <<HasVertexData, HasHalfEdgeData, HasEdgeData, HasFaceData>>

DataKept ==
    EndsWithData(vertex_data_cloud_, half_edge_data_cloud_, edge_data_cloud_,
                 face_data_cloud_)

\* A call can be made: no earlier call hangs or has aborted, and the caller has
\* not compacted the mesh MaxCleanUps times yet.
Running == status = "ok" /\ cleanUps < MaxCleanUps

AddVertex ==
    /\ Running
    /\ Len(vertices_) < SceneVertices
    /\ Ends("addVertex", addVertex(M))
    /\ EndsWithData(addData(vertex_data_cloud_, VertexData, HasVertexData),
                    half_edge_data_cloud_, edge_data_cloud_, face_data_cloud_)

\* addEdge adds the data of two half-edges and one edge with every edge, and
\* connectFace the data of the face with the face.
AddFace ==
    /\ Running
    /\ Len(faces_) < MaxFaces
    /\ \E vertices \in VertexLists :
         \E r \in {addFaceImplBase(M, vertices, IsManifold)} :
           /\ Len(r.m.half_edges_) <= 2 * SceneEdges
           /\ Ends("addFace", r)
           /\ EndsWithData(
                vertex_data_cloud_,
                addDataTimes(half_edge_data_cloud_, HalfEdgeData, HasHalfEdgeData,
                             Len(r.m.half_edges_) - Len(half_edges_)),
                addDataTimes(edge_data_cloud_, EdgeData, HasEdgeData,
                             (Len(r.m.half_edges_) - Len(half_edges_)) \div 2),
                addDataTimes(face_data_cloud_, FaceData, HasFaceData,
                             Len(r.m.faces_) - Len(faces_)))

DeleteVertex ==
    /\ Running
    /\ \E idx_vertex \in 0..(Len(vertices_) - 1), oob_deleted \in BOOLEAN :
         Ends("deleteVertex",
              deleteVertex(M, idx_vertex, oob_deleted, IsManifold))
    /\ DataKept

DeleteHalfEdge ==
    /\ Running
    /\ \E idx_he \in 0..(Len(half_edges_) - 1) :
         Ends("deleteEdge", deleteEdgeHalfEdge(M, idx_he, IsManifold))
    /\ DataKept

DeleteEdge ==
    /\ Running
    /\ \E idx_edge \in 0..((Len(half_edges_) \div 2) - 1) :
         Ends("deleteEdge(EdgeIndex)", deleteEdge(M, idx_edge, IsManifold))
    /\ DataKept

DeleteFace ==
    /\ Running
    /\ \E idx_face \in 0..(Len(faces_) - 1) :
         Ends("deleteFace", deleteFace(M, idx_face, IsManifold))
    /\ DataKept

\* The tests of isDeleted on the elements of the three vectors.
DeletedVertices == [k \in DOMAIN vertices_ |-> IsDeletedVertexElement(vertices_[k])]
DeletedHalfEdges == [k \in DOMAIN half_edges_ |-> IsDeletedHalfEdgeElement(half_edges_[k])]
DeletedFaces == [k \in DOMAIN faces_ |-> IsDeletedFaceElement(faces_[k])]

\* A data cloud that is not as long as its elements breaks the assertion of
\* remove; without assertions remove reads and writes outside the cloud
\* and resizes it.
CleanUp ==
    /\ Running
    /\ \E asserts \in BOOLEAN :
         /\ asserts =>
              \/ removeAsserts(vertex_data_cloud_, DeletedVertices, HasVertexData)
              \/ removeAsserts(half_edge_data_cloud_, DeletedHalfEdges, HasHalfEdgeData)
              \/ removeAsserts(face_data_cloud_, DeletedFaces, HasFaceData)
         /\ IF asserts
            THEN Ends("cleanUp", [m |-> M, ret |-> Invalid, st |-> "abort"]) /\ DataKept
            ELSE /\ Ends("cleanUp", cleanUp(M))
                 /\ EndsWithData(
                      removeData(vertex_data_cloud_, DeletedVertices, HasVertexData),
                      removeData(half_edge_data_cloud_, DeletedHalfEdges, HasHalfEdgeData),
                      cleanUpEdgeData(edge_data_cloud_, DeletedHalfEdges, HasEdgeData),
                      removeData(face_data_cloud_, DeletedFaces, HasFaceData))

Next ==
    \/ AddVertex
    \/ AddFace
    \/ DeleteVertex
    \/ DeleteHalfEdge
    \/ DeleteEdge
    \/ DeleteFace
    \/ CleanUp

Spec == Init /\ [][Next]_vars

\* ------------------------------------------------- resize and clear
\* A mesh with any choice of data builds the scene of one triangle, and
\* calls resize and clear between the other calls, MaxResizes times.  The
\* caller resizes only so that no index of a kept element points behind
\* the end of a vector.
InitData ==
    /\ Constructed
    /\ HasVertexData \in BOOLEAN
    /\ HasHalfEdgeData \in BOOLEAN
    /\ HasEdgeData \in BOOLEAN
    /\ HasFaceData \in BOOLEAN
    /\ scene = "triangle"

Resizing == Running /\ resizes < MaxResizes

ResizeVertices ==
    /\ Resizing
    /\ \E n \in 0..SceneVertices :
         /\ \A k \in DOMAIN half_edges_ : half_edges_[k].idx_terminating_vertex_ < n
         /\ Ends("resize", Returned(Mesh(resize(vertices_, n, Vertex), half_edges_, faces_),
                                    Invalid))
         /\ EndsWithData(resizeData(vertex_data_cloud_, n, VertexData, HasVertexData),
                         half_edge_data_cloud_, edge_data_cloud_, face_data_cloud_)

ResizeEdges ==
    /\ Resizing
    /\ \E n \in 0..SceneEdges :
         /\ \A k \in DOMAIN vertices_ : vertices_[k].idx_outgoing_half_edge_ < 2 * n
         /\ \A k \in DOMAIN faces_ : faces_[k].idx_inner_half_edge_ < 2 * n
         /\ \A k \in 1..2 * n :
               k <= Len(half_edges_) =>
                  /\ half_edges_[k].idx_next_half_edge_ < 2 * n
                  /\ half_edges_[k].idx_prev_half_edge_ < 2 * n
         /\ Ends("resize", Returned(Mesh(vertices_, resize(half_edges_, 2 * n, HalfEdge(Invalid)),
                                         faces_), Invalid))
         /\ EndsWithData(vertex_data_cloud_,
                         resizeData(half_edge_data_cloud_, 2 * n, HalfEdgeData, HasHalfEdgeData),
                         resizeData(edge_data_cloud_, n, EdgeData, HasEdgeData),
                         face_data_cloud_)

ResizeFaces ==
    /\ Resizing
    /\ \E n \in 0..MaxFaces :
         /\ \A k \in DOMAIN half_edges_ : half_edges_[k].idx_face_ < n
         /\ Ends("resize", Returned(Mesh(vertices_, half_edges_, resize(faces_, n, Face(Invalid))),
                                    Invalid))
         /\ EndsWithData(vertex_data_cloud_, half_edge_data_cloud_, edge_data_cloud_,
                         resizeData(face_data_cloud_, n, FaceData, HasFaceData))

Clear ==
    /\ Resizing
    /\ Ends("clear", Returned(Mesh(<<>>, <<>>, <<>>), Invalid))
    /\ EndsWithData(clearData(vertex_data_cloud_, HasVertexData),
                    clearData(half_edge_data_cloud_, HasHalfEdgeData),
                    clearData(edge_data_cloud_, HasEdgeData),
                    clearData(face_data_cloud_, HasFaceData))

NextData ==
    \/ Next
    \/ ResizeVertices
    \/ ResizeEdges
    \/ ResizeFaces
    \/ Clear

SpecData == InitData /\ [][NextData]_vars


\* --------------------------------------------------------------- properties
VertexIndices(m) == 0..(sizeVertices(m) - 1)
HalfEdgeIndices(m) == 0..(sizeHalfEdges(m) - 1)
FaceIndices(m) == 0..(sizeFaces(m) - 1)

\* No call hangs or has aborted: the mesh is the one a completed call left.
Completed == status = "ok"

\* The vertex lists addFace is tried with in every mesh reached: the lists of
\* VertexLists, and the lists of the scene started at any of their vertices
\* and taken in either direction.
Rotate(l, k) == [i \in 1..Len(l) |-> l[((i + k - 1) % Len(l)) + 1]]

Reverse(l) == [i \in 1..Len(l) |-> l[Len(l) + 1 - i]]

AddFaceInputs ==
    VertexLists \cup
    {Rotate(l, k) : l \in SceneLists \cup {Reverse(x) : x \in SceneLists}, k \in 0..3}

\* C1: whenever addFace returns the invalid face index, under either policy and
\* for whatever reason, the vertex, half-edge and face sequences with all their
\* link fields are what they were before the call.
C1_FailedAddFaceChangesNothing ==
    Completed =>
      \A vertices \in AddFaceInputs :
         LET r == addFaceImplBase(M, vertices, IsManifold) IN
         (r.st = "ok" /\ r.ret = Invalid) => r.m = M

\* A mesh with two faces or more in which addFace refuses a list of distinct
\* valid vertices that are not all isolated.
C1_Witness ==
    /\ Completed
    /\ Cardinality({f \in FaceIndices(M) : ~isDeletedFace(M, f)}) >= 2
    /\ \E vertices \in SceneLists :
          /\ \A i \in DOMAIN vertices : isValidVertex(M, vertices[i])
          /\ \E i \in DOMAIN vertices : ~isIsolated(M, vertices[i])
          /\ addFaceImplBase(M, vertices, IsManifold) = Returned(M, Invalid)

\* C2: when addFace (v_0 .. v_{n-1}) succeeds, under either policy, it returns
\* the face count before the call, the inner half-edge of the new face is the
\* half-edge v_{n-1} -> v_0, and following next from it passes exactly n
\* half-edges, terminating in v_0, v_1, .., v_{n-1} in this order, each with the
\* new face as its face.
C2_AddFaceResult ==
    Completed =>
      \A vertices \in AddFaceInputs :
         LET r == addFaceImplBase(M, vertices, IsManifold)
             n == Len(vertices)
         IN  (r.st = "ok" /\ r.ret # Invalid) =>
               /\ r.ret = sizeFaces(M)
               /\ isValidFace(r.m, r.ret)
               /\ LET h == getInnerHalfEdgeIndex(r.m, r.ret)
                      round == circulatorRound("inner", r.m, h)
                  IN  /\ isValidHalfEdge(r.m, h)
                      /\ getOriginatingVertexIndex(r.m, h) = vertices[n]
                      /\ getTerminatingVertexIndex(r.m, h) = vertices[1]
                      /\ round.closed
                      /\ Len(round.seq) = n
                      /\ \A k \in 1..n :
                            /\ getTerminatingVertexIndex(r.m, round.seq[k]) = vertices[k]
                            /\ getFaceIndex(r.m, round.seq[k]) = r.ret

\* A mesh with faces in which addFace accepts a quadrilateral that takes over
\* half-edges of older faces.
C2_Witness ==
    /\ Completed
    /\ sizeFaces(M) >= 1
    /\ \E vertices \in SceneLists :
          LET r == addFaceImplBase(M, vertices, IsManifold) IN
          /\ Len(vertices) = 4
          /\ r.st = "ok"
          /\ r.ret = sizeFaces(M)
          /\ sizeHalfEdges(r.m) < sizeHalfEdges(M) + 2 * Len(vertices)

\* The half-edges that leave vertex v and are not deleted.
OutgoingHalfEdges(m, v) ==
    {h \in HalfEdgeIndices(m) :
       ~isDeletedHalfEdge(m, h) /\ getOriginatingVertexIndex(m, h) = v}

BoundaryOutgoingHalfEdges(m, v) ==
    {h \in OutgoingHalfEdges(m, v) : isBoundaryHalfEdge(m, h)}

\* C3: under the manifold policy, after any sequence of completed addVertex /
\* addFace / deleteFace / deleteEdge / deleteVertex calls, a non-deleted vertex
\* has at most one boundary half-edge among its outgoing half-edges, and if it
\* has one, that one is its outgoing half-edge.
C3_ManifoldVertices ==
    Completed /\ IsManifold /\ cleanUps = 0 =>
      \A v \in VertexIndices(M) :
         ~isDeletedVertex(M, v) =>
            /\ Cardinality(BoundaryOutgoingHalfEdges(M, v)) <= 1
            /\ BoundaryOutgoingHalfEdges(M, v) # {} =>
                 getOutgoingHalfEdgeIndex(M, v) \in BoundaryOutgoingHalfEdges(M, v)

\* The faces of mesh m that are not deleted.
LiveFaces(m) == {f \in FaceIndices(m) : ~isDeletedFace(m, f)}

\* A manifold mesh in which deleteFace deletes more faces than the one it is
\* called for.
C3_Witness ==
    /\ Completed
    /\ IsManifold
    /\ cleanUps = 0
    /\ \E f \in LiveFaces(M) :
          LET r == deleteFace(M, f, IsManifold) IN
          /\ r.st = "ok"
          /\ Cardinality(LiveFaces(r.m)) + 2 <= Cardinality(LiveFaces(M))

\* C4: every call of deleteFace on a non-deleted face terminates, under either
\* policy and in meshes without boundary too: the loop of reconnectNBNB comes
\* to a boundary half-edge and the stack of faces to delete runs empty.
C4_DeleteFaceTerminates ==
    Completed =>
      \A f \in FaceIndices(M) :
         ~isDeletedFace(M, f) => deleteFace(M, f, IsManifold).st # "hang"

\* C5: after cleanUp no vertex, half-edge, edge or face is deleted (so no
\* vertex is isolated), and every index stored in an element (outgoing,
\* terminating, next, prev, inner, every valid face) is within the compacted
\* sequences.
C5_CleanUpLeavesNothingDeleted ==
    Completed =>
      LET r == cleanUp(M) IN
      /\ r.st = "ok"
      /\ sizeHalfEdges(r.m) % 2 = 0
      /\ \A v \in VertexIndices(r.m) :
            /\ ~isDeletedVertex(r.m, v)
            /\ isValidHalfEdge(r.m, getOutgoingHalfEdgeIndex(r.m, v))
      /\ \A h \in HalfEdgeIndices(r.m) :
            /\ ~isDeletedHalfEdge(r.m, h)
            /\ isValidVertex(r.m, getTerminatingVertexIndex(r.m, h))
            /\ isValidHalfEdge(r.m, getNextHalfEdgeIndex(r.m, h))
            /\ isValidHalfEdge(r.m, getPrevHalfEdgeIndex(r.m, h))
            /\ getFaceIndex(r.m, h) # Invalid => isValidFace(r.m, getFaceIndex(r.m, h))
      /\ \A f \in FaceIndices(r.m) :
            /\ ~isDeletedFace(r.m, f)
            /\ isValidHalfEdge(r.m, getInnerHalfEdgeIndex(r.m, f))

\* A mesh with a deleted vertex, a deleted edge, a deleted face and a face that
\* is not deleted, which cleanUp compacts.
C5_Witness ==
    /\ Completed
    /\ \E v \in VertexIndices(M) : isDeletedVertex(M, v)
    /\ \E h \in HalfEdgeIndices(M) : isDeletedHalfEdge(M, h)
    /\ \E f \in FaceIndices(M) : isDeletedFace(M, f)
    /\ \E f \in FaceIndices(M) : ~isDeletedFace(M, f)
    /\ cleanUp(M).st = "ok"

\* The elements of a mesh that cleanUp keeps.
SurvivingVertices(m) == {v \in VertexIndices(m) : ~isDeletedVertex(m, v)}
SurvivingHalfEdges(m) == {h \in HalfEdgeIndices(m) : ~isDeletedHalfEdge(m, h)}
SurvivingFaces(m) == {f \in FaceIndices(m) : ~isDeletedFace(m, f)}

\* The place of element idx among the elements of S, in increasing order; the
\* invalid index for an element not in S.
Rank(S, idx) ==
    IF idx \in S THEN Cardinality({j \in S : j < idx}) ELSE Invalid

\* The terminating vertices passed by following next from the inner half-edge
\* of face f.
VerticesAroundFace(m, f) ==
    LET round == circulatorRound("inner", m, getInnerHalfEdgeIndex(m, f)) IN
    [k \in DOMAIN round.seq |-> getTerminatingVertexIndex(m, round.seq[k])]

\* C6: cleanUp is a stable compaction that keeps the topology: it keeps the
\* surviving elements in their order, surviving opposite half-edges stay
\* opposite, and terminating vertex, next, prev and face of every surviving
\* half-edge, the vertex cycle of every surviving face and the outgoing
\* half-edge of every surviving vertex are, renumbered, what they were.
C6_CleanUpKeepsTopology ==
    Completed =>
      LET r == cleanUp(M)
          V == SurvivingVertices(M)
          H == SurvivingHalfEdges(M)
          F == SurvivingFaces(M)
      IN
      /\ r.st = "ok"
      /\ sizeVertices(r.m) = Cardinality(V)
      /\ sizeHalfEdges(r.m) = Cardinality(H)
      /\ sizeFaces(r.m) = Cardinality(F)
      /\ \A h \in H :
            /\ getOppositeHalfEdgeIndex(h) \in H
            /\ Rank(H, getOppositeHalfEdgeIndex(h)) = getOppositeHalfEdgeIndex(Rank(H, h))
            /\ getTerminatingVertexIndex(M, h) \in V
            /\ getTerminatingVertexIndex(r.m, Rank(H, h))
                 = Rank(V, getTerminatingVertexIndex(M, h))
            /\ getNextHalfEdgeIndex(M, h) \in H
            /\ getNextHalfEdgeIndex(r.m, Rank(H, h)) = Rank(H, getNextHalfEdgeIndex(M, h))
            /\ getPrevHalfEdgeIndex(M, h) \in H
            /\ getPrevHalfEdgeIndex(r.m, Rank(H, h)) = Rank(H, getPrevHalfEdgeIndex(M, h))
            /\ getFaceIndex(M, h) # Invalid => getFaceIndex(M, h) \in F
            /\ getFaceIndex(r.m, Rank(H, h)) = Rank(F, getFaceIndex(M, h))
      /\ \A f \in F :
            /\ getInnerHalfEdgeIndex(M, f) \in H
            /\ VerticesAroundFace(r.m, Rank(F, f))
                 = [k \in DOMAIN VerticesAroundFace(M, f) |->
                      Rank(V, VerticesAroundFace(M, f)[k])]
      /\ \A v \in V :
            /\ getOutgoingHalfEdgeIndex(M, v) \in H
            /\ getOutgoingHalfEdgeIndex(r.m, Rank(V, v))
                 = Rank(H, getOutgoingHalfEdgeIndex(M, v))

\* A mesh in which cleanUp moves a vertex, a half-edge and a face that it keeps.
C6_Witness ==
    /\ Completed
    /\ cleanUp(M).st = "ok"
    /\ \E v \in SurvivingVertices(M) : Rank(SurvivingVertices(M), v) # v
    /\ \E h \in SurvivingHalfEdges(M) : Rank(SurvivingHalfEdges(M), h) # h
    /\ \E f \in SurvivingFaces(M) : Rank(SurvivingFaces(M), f) # f

\* C7: in every state between completed public mutations, under either policy,
\* every non-deleted half-edge h has a valid prev and a valid next, with
\* next(prev(h)) = h and prev(next(h)) = h.
C7_NextPrevInverse ==
    Completed =>
      \A h \in HalfEdgeIndices(M) :
         ~isDeletedHalfEdge(M, h) =>
            /\ isValidHalfEdge(M, getPrevHalfEdgeIndex(M, h))
            /\ isValidHalfEdge(M, getNextHalfEdgeIndex(M, h))
            /\ getNextHalfEdgeIndex(M, getPrevHalfEdgeIndex(M, h)) = h
            /\ getPrevHalfEdgeIndex(M, getNextHalfEdgeIndex(M, h)) = h

\* A non-manifold mesh with a vertex in which three fans of faces meet, after a
\* face was deleted.
C7_Witness ==
    /\ Completed
    /\ ~IsManifold
    /\ \E f \in FaceIndices(M) : isDeletedFace(M, f)
    /\ \E v \in VertexIndices(M) :
          ~isDeletedVertex(M, v) /\ Cardinality(BoundaryOutgoingHalfEdges(M, v)) >= 3

\* C8: in every state between completed public mutations, under either policy,
\* following next from the inner half-edge of a non-deleted face f comes back to
\* it after at least 3 steps, and every half-edge passed has face = f.
C8_FaceCycle ==
    Completed =>
      \A f \in FaceIndices(M) :
         ~isDeletedFace(M, f) =>
            /\ isValidHalfEdge(M, getInnerHalfEdgeIndex(M, f))
            /\ LET round == circulatorRound("inner", M, getInnerHalfEdgeIndex(M, f)) IN
               /\ round.closed
               /\ Len(round.seq) >= 3
               /\ \A k \in DOMAIN round.seq : getFaceIndex(M, round.seq[k]) = f

\* A mesh with a quadrilateral next to a triangle, and a deleted face.
C8_Witness ==
    /\ Completed
    /\ \E f \in FaceIndices(M) : isDeletedFace(M, f)
    /\ \E f \in LiveFaces(M) :
          LET round == circulatorRound("inner", M, getInnerHalfEdgeIndex(M, f)) IN
          /\ Len(round.seq) = 4
          /\ \E k \in DOMAIN round.seq :
                ~isBoundaryHalfEdge(M, getOppositeHalfEdgeIndex(round.seq[k]))

\* C9: in every state between completed public mutations, under either policy,
\* the outgoing half-edge of a vertex v, where it is not the invalid index, is
\* in bounds, not deleted, and originates in v.
C9_OutgoingOriginates ==
    Completed =>
      \A v \in VertexIndices(M) :
         getOutgoingHalfEdgeIndex(M, v) # Invalid =>
            /\ isValidHalfEdge(M, getOutgoingHalfEdgeIndex(M, v))
            /\ ~isDeletedHalfEdge(M, getOutgoingHalfEdgeIndex(M, v))
            /\ getOriginatingVertexIndex(M, getOutgoingHalfEdgeIndex(M, v)) = v

\* A mesh after deletions in which a vertex with two faces or more has a
\* boundary half-edge as its outgoing half-edge.
C9_Witness ==
    /\ Completed
    /\ \E h \in HalfEdgeIndices(M) : isDeletedHalfEdge(M, h)
    /\ \E v \in VertexIndices(M) :
          /\ ~isDeletedVertex(M, v)
          /\ isBoundaryVertex(M, v)
          /\ Cardinality({h \in OutgoingHalfEdges(M, v) : ~isBoundaryHalfEdge(M, h)}) >= 2

\* C10: in every state between completed public mutations, under either policy,
\* the terminating vertex of prev(h) is the originating vertex of h, for every
\* non-deleted half-edge h.
C10_PrevTerminatesAtOrigin ==
    Completed =>
      \A h \in HalfEdgeIndices(M) :
         ~isDeletedHalfEdge(M, h) =>
            /\ isValidHalfEdge(M, getPrevHalfEdgeIndex(M, h))
            /\ getTerminatingVertexIndex(M, getPrevHalfEdgeIndex(M, h))
                 = getTerminatingVertexIndex(M, getOppositeHalfEdgeIndex(h))

\* A non-manifold mesh in which addFace has to make two old half-edges adjacent
\* and accepts the face.
C10_Witness ==
    /\ Completed
    /\ ~IsManifold
    /\ \E vertices \in SceneLists :
          LET n == Len(vertices)
              t1 == checkTopology1Loop(M, vertices, [i \in 1..n |-> Invalid],
                                       [i \in 1..n |-> TRUE], 0, IsManifold)
              t2 == checkTopology2Loop(M, vertices, t1.inner_he, t1.is_new,
                                       [i \in 1..n |-> FALSE], [i \in 1..n |-> Invalid],
                                       0, IsManifold)
          IN  /\ \A i \in 1..n : isValidVertex(M, vertices[i]) /\ ~isIsolated(M, vertices[i])
              /\ t1.ok
              /\ t2.ok
              /\ \E i \in 1..n : t2.make_adjacent[i]
              /\ addFaceImplBase(M, vertices, IsManifold).ret = sizeFaces(M)

\* The oriented slot a -> b is occupied: a half-edge from a to b that is not
\* deleted has a face.
Occupied(m, a, b) ==
    \E h \in HalfEdgeIndices(m) :
       /\ ~isDeletedHalfEdge(m, h)
       /\ getOriginatingVertexIndex(m, h) = a
       /\ getTerminatingVertexIndex(m, h) = b
       /\ ~isBoundaryHalfEdge(m, h)

\* The list has a pair (v_i, v_{i+1}), taken around the list, whose slot is
\* occupied.
HasOccupiedSlot(m, vertices) ==
    \E i \in DOMAIN vertices :
       Occupied(m, vertices[i], vertices[(i % Len(vertices)) + 1])

\* C11: under either policy addFace returns the invalid face index whenever
\* for some adjacent pair (v_i, v_{i+1}) of its list a half-edge from v_i to
\* v_{i+1} that is not deleted has a face.
C11_OccupiedSlotRefused ==
    Completed =>
      \A vertices \in AddFaceInputs :
         HasOccupiedSlot(M, vertices) =>
            addFaceImplBase(M, vertices, IsManifold) = Returned(M, Invalid)

\* The same under the non-manifold policy alone, where checkTopology1 looks at
\* every half-edge that leaves v_i.
C11_OccupiedSlotRefusedNonManifold ==
    (Completed /\ ~IsManifold) =>
      \A vertices \in AddFaceInputs :
         HasOccupiedSlot(M, vertices) =>
            addFaceImplBase(M, vertices, IsManifold).ret = Invalid

\* Lists that addFace has to refuse before it looks at the topology, next to
\* the lists of AddFaceInputs.
RefusedInputs == AddFaceInputs \cup {<<>>, <<0>>, <<0, 1, Invalid>>}

\* A vertex of the list is not isolated and its outgoing half-edge has a face.
HasInnerVertex(m, vertices) ==
    \E i \in DOMAIN vertices :
       /\ isValidVertex(m, vertices[i])
       /\ ~isIsolated(m, vertices[i])
       /\ ~isBoundaryHalfEdge(m, getOutgoingHalfEdgeIndex(m, vertices[i]))

\* C12: addFace returns the invalid face index when its list has fewer than 3
\* entries, holds an index outside 0 .. sizeVertices - 1, holds a vertex
\* twice, or (under either policy) holds a vertex that is not isolated and
\* whose outgoing half-edge is not a boundary half-edge.
C12_StructuralRejection ==
    Completed =>
      \A vertices \in RefusedInputs :
         ( \/ Len(vertices) < 3
           \/ \E i \in DOMAIN vertices : ~isValidVertex(M, vertices[i])
           \/ \E i, j \in DOMAIN vertices : i # j /\ vertices[i] = vertices[j]
           \/ HasInnerVertex(M, vertices) )
         => addFaceImplBase(M, vertices, IsManifold) = Returned(M, Invalid)

\* A mesh with faces in which a list of three distinct valid vertices, none
\* of them isolated, is refused under the manifold policy because one of them
\* is an inner vertex.
C12_Witness ==
    /\ Completed
    /\ IsManifold
    /\ \E vertices \in SceneLists :
          /\ Len(vertices) = 3
          /\ \A i \in DOMAIN vertices :
                isValidVertex(M, vertices[i]) /\ ~isIsolated(M, vertices[i])
          /\ HasInnerVertex(M, vertices)
          /\ addFaceImplBase(M, vertices, IsManifold) = Returned(M, Invalid)

\* The face indices deleteVertex collects around v and hands to deleteFace.
FacesCollectedAround(m, v) ==
    LET round == circulatorRound("out", m, getOutgoingHalfEdgeIndex(m, v)) IN
    {getFaceIndex(m, round.seq[k]) : k \in DOMAIN round.seq}

\* The faces of m that are not deleted and have v on their cycle.
FacesWithVertex(m, v) ==
    {f \in LiveFaces(m) :
       \E k \in DOMAIN VerticesAroundFace(m, f) : VerticesAroundFace(m, f)[k] = v}

\* The half-edges of m that are not deleted and begin or end in v.
HalfEdgesAtVertex(m, v) ==
    {h \in HalfEdgeIndices(m) :
       /\ ~isDeletedHalfEdge(m, h)
       /\ \/ getTerminatingVertexIndex(m, h) = v
          \/ getOriginatingVertexIndex(m, h) = v}

\* What deleteVertex (v) has to leave in the mesh after, seen from the mesh
\* before: v, its faces and its edges are marked as deleted.
DeletedAround(before, after, v) ==
    /\ isDeletedVertex(after, v)
    /\ \A f \in FacesWithVertex(before, v) : isDeletedFace(after, f)
    /\ \A h \in HalfEdgesAtVertex(before, v) : isDeletedHalfEdge(after, h)

\* C13: for every vertex v that is not deleted, boundary vertices and (under
\* the non-manifold policy) non-manifold vertices too, deleteVertex (v) hands
\* only valid face indices to deleteFace, and when it returns v, every face
\* that held v and every edge at v is marked as deleted.
C13_DeleteVertex ==
    Completed =>
      \A v \in VertexIndices(M) :
         ~isDeletedVertex(M, v) =>
            /\ \A f \in FacesCollectedAround(M, v) : isValidFace(M, f)
            /\ \A oob_deleted \in BOOLEAN :
                  LET r == deleteVertex(M, v, oob_deleted, IsManifold) IN
                  r.st = "ok" /\ DeletedAround(M, r.m, v)

\* The second half alone, for the calls that return: the invalid indices are
\* skipped by deleteFace (the build without assertions in which the read of
\* faces_ [-1] looks deleted).
C13_DeleteVertexReturned ==
    Completed =>
      \A v \in VertexIndices(M) :
         ~isDeletedVertex(M, v) =>
            LET r == deleteVertex(M, v, TRUE, IsManifold) IN
            r.st = "ok" => DeletedAround(M, r.m, v)

\* What deleteEdge on the half-edge h has to leave in the mesh after: h, its
\* opposite and the faces they had before are marked as deleted.
EdgeDeleted(before, after, h) ==
    /\ isDeletedHalfEdge(after, h)
    /\ isDeletedHalfEdge(after, getOppositeHalfEdgeIndex(h))
    /\ \A g \in {h, getOppositeHalfEdgeIndex(h)} :
          getFaceIndex(before, g) # Invalid => isDeletedFace(after, getFaceIndex(before, g))

\* C14: after deleteEdge (h) on a half-edge h that is not deleted, under
\* either policy, h and opposite (h) are marked as deleted, and so is every
\* face that h or opposite (h) had before the call.  The same for the
\* EdgeIndex form, which calls it on the first half-edge of the edge.
C14_DeleteEdge ==
    Completed =>
      /\ \A h \in HalfEdgeIndices(M) :
            ~isDeletedHalfEdge(M, h) =>
               LET r == deleteEdgeHalfEdge(M, h, IsManifold) IN
               r.st = "ok" => EdgeDeleted(M, r.m, h)
      /\ \A e \in 0..(sizeEdges(M) - 1) :
            ~isDeletedEdge(M, e) =>
               LET r == deleteEdge(M, e, IsManifold) IN
               r.st = "ok" => EdgeDeleted(M, r.m, toHalfEdgeIndex(e, TRUE))

\* A mesh in which deleteEdge is called on an edge between two faces and
\* returns.
C14_Witness ==
    /\ Completed
    /\ \E h \in HalfEdgeIndices(M) :
          /\ ~isDeletedHalfEdge(M, h)
          /\ ~isBoundaryHalfEdge(M, h)
          /\ ~isBoundaryHalfEdge(M, getOppositeHalfEdgeIndex(h))
          /\ getFaceIndex(M, h) # getFaceIndex(M, getOppositeHalfEdgeIndex(h))
          /\ deleteEdgeHalfEdge(M, h, IsManifold).st = "ok"

\* A call that returned in mesh m, made once more on the mesh it left, returns
\* and leaves that mesh as it is.
Repeats(r, again) == r.st = "ok" => (again.st = "ok" /\ again.m = r.m)

\* C15: deleteVertex, deleteEdge (on a half-edge and on an edge) and
\* deleteFace are idempotent: on every reachable mesh and every valid index,
\* the mesh after two calls on the index is the mesh after one.
C15_DeleteIdempotent ==
    Completed =>
      /\ \A v \in VertexIndices(M), oob_deleted \in BOOLEAN :
            Repeats(deleteVertex(M, v, oob_deleted, IsManifold),
                    deleteVertex(deleteVertex(M, v, oob_deleted, IsManifold).m, v,
                                 oob_deleted, IsManifold))
      /\ \A h \in HalfEdgeIndices(M) :
            Repeats(deleteEdgeHalfEdge(M, h, IsManifold),
                    deleteEdgeHalfEdge(deleteEdgeHalfEdge(M, h, IsManifold).m, h, IsManifold))
      /\ \A e \in 0..(sizeEdges(M) - 1) :
            Repeats(deleteEdge(M, e, IsManifold),
                    deleteEdge(deleteEdge(M, e, IsManifold).m, e, IsManifold))
      /\ \A f \in FaceIndices(M) :
            Repeats(deleteFace(M, f, IsManifold),
                    deleteFace(deleteFace(M, f, IsManifold).m, f, IsManifold))

\* A mesh with a vertex, an edge and a face whose deletion returns and changes
\* the mesh, next to elements that are deleted already.
C15_Witness ==
    /\ Completed
    /\ \E f \in FaceIndices(M) : isDeletedFace(M, f)
    /\ \E v \in VertexIndices(M) :
          LET r == deleteVertex(M, v, TRUE, IsManifold) IN r.st = "ok" /\ r.m # M
    /\ \E h \in HalfEdgeIndices(M) :
          LET r == deleteEdgeHalfEdge(M, h, IsManifold) IN r.st = "ok" /\ r.m # M
    /\ \E f \in FaceIndices(M) :
          LET r == deleteFace(M, f, IsManifold) IN r.st = "ok" /\ r.m # M

\* addFace (vertices), deleteFace of the face it returned, cleanUp: the result
\* of the three calls one after the other; st = "ok" when all three returned.
AddDeleteCleanUp(m, vertices, is_manifold) ==
    LET a == addFaceImplBase(m, vertices, is_manifold) IN
    IF a.st # "ok" \/ a.ret = Invalid THEN [m |-> a.m, ret |-> Invalid, st |-> "refused"]
    ELSE LET d == deleteFace(a.m, a.ret, is_manifold) IN
         IF d.st # "ok" THEN d ELSE cleanUp(d.m)

Compact(m) ==
    /\ \A v \in VertexIndices(m) : ~isDeletedVertex(m, v)
    /\ \A h \in HalfEdgeIndices(m) : ~isDeletedHalfEdge(m, h)
    /\ \A f \in FaceIndices(m) : ~isDeletedFace(m, f)

AddDeleteVertexCleanUp(m, oob_deleted, is_manifold) ==
    LET a == addVertex(m)
        d == deleteVertex(a.m, a.ret, oob_deleted, is_manifold)
    IN  IF d.st # "ok" THEN d ELSE cleanUp(d.m)

\* C17 as it is stated: from every reachable mesh, addVertex, deleteVertex of
\* the returned vertex and cleanUp give the mesh they started from.
C17_AddDeleteVertexCleanUpRestores ==
    Completed =>
      \A oob_deleted \in BOOLEAN :
         AddDeleteVertexCleanUp(M, oob_deleted, IsManifold) = Returned(M, Invalid)

\* C17 for the meshes for which it is true: from a reachable mesh without
\* deleted elements and isolated vertices, under either policy, addVertex,
\* deleteVertex of the returned vertex and cleanUp give the mesh they started
\* from.
C17_FromCompact ==
    (Completed /\ Compact(M)) =>
      \A oob_deleted \in BOOLEAN :
         AddDeleteVertexCleanUp(M, oob_deleted, IsManifold) = Returned(M, Invalid)

\* A mesh with faces and without deleted elements, to which a vertex is added,
\* deleted and cleaned up.
C17_Witness ==
    /\ Completed
    /\ Compact(M)
    /\ sizeFaces(M) >= 2
    /\ sizeVertices(addVertex(M).m) = sizeVertices(M) + 1
    /\ AddDeleteVertexCleanUp(M, FALSE, IsManifold) = Returned(M, Invalid)

\* The lists of three or more distinct valid vertices that are all isolated.
IsolatedLists(m) ==
    {vertices \in AddFaceInputs :
       /\ Len(vertices) >= 3
       /\ \A i \in DOMAIN vertices :
             isValidVertex(m, vertices[i]) /\ isIsolated(m, vertices[i])
       /\ \A i, j \in DOMAIN vertices : i # j => vertices[i] # vertices[j]}

\* What addFace does with a list of n isolated vertices, but for isManifold:
\* it succeeds, there is one face and there are n edges more, the vertices
\* are as many as before, and each vertex of the list is on the boundary.
AddedOnIsolated(m, vertices, r) ==
    /\ r.st = "ok"
    /\ r.ret # Invalid
    /\ sizeFaces(r.m) = sizeFaces(m) + 1
    /\ sizeEdges(r.m) = sizeEdges(m) + Len(vertices)
    /\ sizeHalfEdges(r.m) = sizeHalfEdges(m) + 2 * Len(vertices)
    /\ sizeVertices(r.m) = sizeVertices(m)
    /\ \A i \in DOMAIN vertices : isBoundaryVertex(r.m, vertices[i])

FourVertices == addVertex(addVertex(addVertex(addVertex(Mesh(<<>>, <<>>, <<>>)).m).m).m).m

TwoTriangles ==
    addFaceImplBase(addFaceImplBase(FourVertices, <<0, 1, 2>>, TRUE).m, <<1, 3, 2>>, TRUE).m

\* The half-edges of m from vertex a to vertex b.
HalfEdgesFromTo(m, a, b) ==
    {h \in HalfEdgeIndices(m) :
       /\ ~isDeletedHalfEdge(m, h)
       /\ getOriginatingVertexIndex(m, h) = a
       /\ getTerminatingVertexIndex(m, h) = b}

\* There is an edge between a and b and no edge between them is on the boundary.
InnerEdge(m, a, b) ==
    /\ HalfEdgesFromTo(m, a, b) # {}
    /\ \A h \in HalfEdgesFromTo(m, a, b) :
          ~isBoundaryEdge(m, h \div 2)

\* C19 as it is stated: under the manifold policy, after addVertex x4,
\* addFace (0,1,2) and addFace (1,3,2) on the empty mesh there are 4 edges
\* (8 half-edges) and 2 faces, the edge between 1 and 2 is not on the
\* boundary, and the vertices 0 and 3 are on the boundary.
C19_TwoTrianglesFourEdges ==
    (Completed /\ IsManifold /\ M = TwoTriangles) =>
      /\ sizeEdges(M) = 4
      /\ sizeHalfEdges(M) = 8
      /\ sizeFaces(M) = 2
      /\ InnerEdge(M, 1, 2)
      /\ isBoundaryVertex(M, 0)
      /\ isBoundaryVertex(M, 3)

\* C19 with the edges counted: under the manifold policy, after addVertex
\* x4, addFace (0,1,2) and addFace (1,3,2) on the empty mesh there are 5
\* edges (10 half-edges) and 2 faces, the edge between 1 and 2 is not on the
\* boundary, and the vertices 0 and 3 are on the boundary.
C19_TwoTrianglesFiveEdges ==
    (Completed /\ IsManifold /\ M = TwoTriangles) =>
      /\ sizeEdges(M) = 5
      /\ sizeHalfEdges(M) = 10
      /\ sizeFaces(M) = 2
      /\ LiveFaces(M) = {0, 1}
      /\ InnerEdge(M, 1, 2)
      /\ isBoundaryVertex(M, 0)
      /\ isBoundaryVertex(M, 3)

\* The mesh of the two triangles has been built by the manifold mesh.
C19_Witness ==
    /\ Completed
    /\ IsManifold
    /\ sizeVertices(M) = 4
    /\ sizeFaces(M) = 2
    /\ M = TwoTriangles

\* C20 as it is stated: under the manifold policy, on the mesh of the faces
\* (0,1,2) and (1,3,2), addFace (0,3,1) returns the invalid face index and
\* leaves the mesh as it was.
C20_ThirdTriangleRefused ==
    (Completed /\ IsManifold /\ M = TwoTriangles) =>
      LET r == addFaceImplBase(M, <<0, 3, 1>>, IsManifold) IN
      /\ r.st = "ok"
      /\ r.ret = Invalid
      /\ r.m = M

\* What the code does: under the manifold policy, on the mesh of the faces
\* (0,1,2) and (1,3,2), addFace (0,3,1) returns the face index 2, adds the
\* one edge between 0 and 3 and no vertex, leaves the two faces and the ten
\* half-edges with their terminating vertices, closes the fan of vertex 1,
\* which is no boundary vertex after it, and leaves 0, 2 and 3 on the
\* boundary.
C20_ThirdTriangleAdded ==
    (Completed /\ IsManifold /\ M = TwoTriangles) =>
      LET r == addFaceImplBase(M, <<0, 3, 1>>, IsManifold) IN
      /\ r.st = "ok"
      /\ r.ret = 2
      /\ sizeFaces(r.m) = 3
      /\ sizeEdges(r.m) = sizeEdges(M) + 1
      /\ sizeVertices(r.m) = sizeVertices(M)
      /\ HalfEdgesFromTo(r.m, 0, 3) = {sizeHalfEdges(M)}
      /\ \A f \in FaceIndices(M) : r.m.faces_[f + 1] = M.faces_[f + 1]
      /\ \A h \in HalfEdgeIndices(M) :
            getTerminatingVertexIndex(r.m, h) = getTerminatingVertexIndex(M, h)
      /\ \A h \in HalfEdgesFromTo(r.m, 0, 3) \cup HalfEdgesFromTo(r.m, 3, 1)
                    \cup HalfEdgesFromTo(r.m, 1, 0) :
            getFaceIndex(r.m, h) = 2
      /\ ~isBoundaryVertex(r.m, 1)
      /\ \A v \in {0, 2, 3} : isBoundaryVertex(r.m, v)

\* The manifold mesh has added (0,3,1) to the two triangles.
C20_Witness ==
    /\ Completed
    /\ IsManifold
    /\ sizeFaces(M) = 3
    /\ M = addFaceImplBase(TwoTriangles, <<0, 3, 1>>, TRUE).m

\* The half-edges next leads through from the inner half-edge of the face,
\* cut after MaxEdges steps.
RECURSIVE FaceCycle(_, _, _)
FaceCycle(m, idx_he, seen) ==
    IF ~isValidHalfEdge(m, idx_he) \/ Len(seen) > 2 * MaxEdges
       \/ (\E k \in DOMAIN seen : seen[k] = idx_he)
    THEN seen
    ELSE FaceCycle(m, getNextHalfEdgeIndex(m, idx_he), Append(seen, idx_he))

\* The face has a closed cycle of three inner half-edges that all have it as
\* their face.
IntactTriangle(m, idx_face) ==
    LET cycle == FaceCycle(m, getInnerHalfEdgeIndex(m, idx_face), <<>>) IN
    /\ Len(cycle) = 3
    /\ getNextHalfEdgeIndex(m, cycle[3]) = cycle[1]
    /\ \A k \in 1..3 : getFaceIndex(m, cycle[k]) = idx_face

\* deleteEdge in its three forms on the edge between a and b.
DeleteEdgeResults(m, a, b, is_manifold) ==
    {deleteEdgeHalfEdge(m, h, is_manifold) :
        h \in HalfEdgesFromTo(m, a, b) \cup HalfEdgesFromTo(m, b, a)}
    \cup {deleteEdge(m, h \div 2, is_manifold) : h \in HalfEdgesFromTo(m, a, b)}

\* C21 as it is stated: under the manifold policy, on the mesh of the faces
\* (0,1,2) and (1,3,2), deleteEdge on the edge between 1 and 2 and then
\* cleanUp delete exactly one face, and the face that is left has its cycle
\* of three half-edges intact.
C21_SharedEdgeOneFaceLeft ==
    (Completed /\ IsManifold /\ M = TwoTriangles) =>
      \A d \in DeleteEdgeResults(M, 1, 2, IsManifold) :
         /\ d.st = "ok"
         /\ Cardinality(LiveFaces(d.m)) = 1
         /\ LET c == cleanUp(d.m) IN
            /\ c.st = "ok"
            /\ sizeFaces(c.m) = 1
            /\ IntactTriangle(c.m, 0)

\* What the code does: under the manifold policy, on the mesh of the faces
\* (0,1,2) and (1,3,2), deleteEdge on the edge between 1 and 2 marks both
\* faces, all ten half-edges and all four vertices as deleted without
\* moving an element, and cleanUp after it leaves the empty mesh.
C21_SharedEdgeBothFacesDeleted ==
    (Completed /\ IsManifold /\ M = TwoTriangles) =>
      \A d \in DeleteEdgeResults(M, 1, 2, IsManifold) :
         /\ d.st = "ok"
         /\ sizeFaces(d.m) = 2 /\ sizeHalfEdges(d.m) = 10 /\ sizeVertices(d.m) = 4
         /\ LiveFaces(d.m) = {}
         /\ \A h \in HalfEdgeIndices(d.m) : isDeletedHalfEdge(d.m, h)
         /\ \A v \in VertexIndices(d.m) : isDeletedVertex(d.m, v)
         /\ cleanUp(d.m) = Returned(Mesh(<<>>, <<>>, <<>>), Invalid)

\* The manifold mesh has called deleteEdge on the edge the two triangles share.
C21_Witness ==
    /\ Completed
    /\ IsManifold
    /\ sizeFaces(M) = 2
    /\ LiveFaces(M) = {}
    /\ \E d \in DeleteEdgeResults(TwoTriangles, 1, 2, TRUE) : M = d.m

\* The mesh is no more than four triangles that close around vertex 0 with
\* the rim 1, 2, 3, 4: five vertices, eight edges, nothing deleted.
ClosedFanLists == {<<0, 1, 2>>, <<0, 2, 3>>, <<0, 3, 4>>, <<0, 4, 1>>}

IsClosedFan(m) ==
    /\ sizeVertices(m) = 5 /\ sizeEdges(m) = 8 /\ sizeFaces(m) = 4
    /\ \A v \in VertexIndices(m) : ~isDeletedVertex(m, v)
    /\ \A h \in HalfEdgeIndices(m) : ~isDeletedHalfEdge(m, h)
    /\ \A f \in FaceIndices(m) : ~isDeletedFace(m, f)
    /\ \A l \in ClosedFanLists :
          \E f \in FaceIndices(m), k \in 0..2 : VerticesAroundFace(m, f) = Rotate(l, k)

C22_WitnessFan ==
    /\ Completed
    /\ ~IsManifold
    /\ IsClosedFan(M)
    /\ VerticesAroundFace(M, 0) \notin {Rotate(<<0, 1, 2>>, k) : k \in 0..2}

Mirror(m, l) == [i \in DOMAIN l |-> sizeVertices(m) - 1 - l[i]]

Triangles(m) ==
    {l \in AddFaceInputs \cup {Mirror(m, x) : x \in AddFaceInputs} :
       /\ Len(l) = 3
       /\ \A i \in 1..3 : isValidVertex(m, l[i])
       /\ Cardinality({l[i] : i \in 1..3}) = 3}

\* The pairs of triangles that have exactly one vertex in common.
BowTies(m) ==
    {p \in Triangles(m) \X Triangles(m) :
       Cardinality({p[1][i] : i \in 1..3} \cap {p[2][i] : i \in 1..3}) = 1}

Yes == {[ret |-> TRUE, st |-> "ok"]}
No == {[ret |-> FALSE, st |-> "ok"]}

\* C23: under the non-manifold policy, on a mesh of five vertices, the two
\* addFace calls of two triangles that share exactly one vertex s both
\* succeed; after them isManifold () is false, isManifold (s) is false and
\* isManifold (v) is true for each of the other four vertices.
C23_BowTie ==
    (Completed /\ ~IsManifold /\ sizeVertices(M) = 5
       /\ sizeFaces(M) = 0 /\ sizeHalfEdges(M) = 0) =>
      \A p \in BowTies(M) :
         LET first == addFaceImplBase(M, p[1], FALSE)
             second == addFaceImplBase(first.m, p[2], FALSE)
             of_first == {p[1][i] : i \in 1..3}
             of_second == {p[2][i] : i \in 1..3}
         IN  /\ first.st = "ok" /\ first.ret = 0
             /\ second.st = "ok" /\ second.ret = 1
             /\ isManifold(second.m, FALSE) = No
             /\ \A s \in of_first \cap of_second :
                   isManifoldVertex(second.m, s, FALSE) = No
             /\ \A v \in (of_first \cup of_second) \ (of_first \cap of_second) :
                   isManifoldVertex(second.m, v, FALSE) = Yes

\* The non-manifold mesh holds two triangles that share one vertex and
\* nothing else, and that vertex is not manifold.
C23_Witness ==
    /\ Completed
    /\ ~IsManifold
    /\ sizeVertices(M) = 5 /\ sizeFaces(M) = 2 /\ sizeEdges(M) = 6
    /\ LiveFaces(M) = {0, 1}
    /\ \E s \in VertexIndices(M) :
          /\ {VerticesAroundFace(M, 0)[i] : i \in 1..3}
               \cap {VerticesAroundFace(M, 1)[i] : i \in 1..3} = {s}
          /\ isManifoldVertex(M, s, FALSE) = No
          /\ isManifold(M, FALSE) = No

\* C24: under both policies, in every state between completed calls, for
\* every vertex that is not isolated and not deleted, isBoundary (v), which
\* looks at the outgoing half-edge of v only, is true if and only if at least
\* one half-edge that leaves v is a boundary half-edge.
C24_BoundaryVertex ==
    Completed =>
      \A v \in VertexIndices(M) :
         ~isIsolated(M, v) =>
            (isBoundaryVertex(M, v) <=> BoundaryOutgoingHalfEdges(M, v) # {})

\* A non-manifold mesh with a vertex that has two boundary half-edges and
\* three or more half-edges with a face leaving it.
C24_Witness ==
    /\ Completed
    /\ ~IsManifold
    /\ \E v \in VertexIndices(M) :
          /\ ~isIsolated(M, v)
          /\ isBoundaryVertex(M, v)
          /\ Cardinality(BoundaryOutgoingHalfEdges(M, v)) = 2
          /\ Cardinality(OutgoingHalfEdges(M, v) \ BoundaryOutgoingHalfEdges(M, v)) >= 3

\* C25: under the non-manifold policy, for every vertex of a reachable mesh
\* that is not isolated and not deleted, isManifold (v) returns true if and
\* only if at most one of the half-edges that leave v is a boundary
\* half-edge.
C25_ManifoldVertex ==
    (Completed /\ ~IsManifold) =>
      \A v \in VertexIndices(M) :
         ~isIsolated(M, v) =>
            isManifoldVertex(M, v, IsManifold) =
               IF Cardinality(BoundaryOutgoingHalfEdges(M, v)) <= 1 THEN Yes ELSE No

\* A non-manifold mesh after cleanUp with a vertex that has three boundary
\* half-edges leaving it, and a vertex with one.
C25_Witness ==
    /\ Completed
    /\ ~IsManifold
    /\ cleanUps > 0
    /\ \E v, w \in VertexIndices(M) :
          /\ ~isIsolated(M, v) /\ ~isIsolated(M, w)
          /\ Cardinality(BoundaryOutgoingHalfEdges(M, v)) = 3
          /\ Cardinality(BoundaryOutgoingHalfEdges(M, w)) = 1
          /\ isManifoldVertex(M, v, IsManifold) = No
          /\ isManifoldVertex(M, w, IsManifold) = Yes

\* C26: under the non-manifold policy isManifold () is well defined on every
\* reachable mesh, meshes with isolated or deleted vertices included: it
\* never calls isBoundary or reads a link with an invalid half-edge index,
\* and it returns the conjunction of isManifold (v) over the vertices.
C26_IsManifoldDefined ==
    (Completed /\ ~IsManifold) =>
      \A o \in isManifold(M, IsManifold) :
         /\ o.st = "ok"
         /\ o.ret = \A v \in VertexIndices(M) :
                       \/ isIsolated(M, v)
                       \/ Cardinality(BoundaryOutgoingHalfEdges(M, v)) <= 1

\* The part of C26 that holds: on a reachable non-manifold mesh in which no
\* vertex is isolated or deleted, isManifold () returns the conjunction of
\* isManifold (v) over the vertices.
C26_IsManifoldWithoutIsolated ==
    (Completed /\ ~IsManifold /\ \A v \in VertexIndices(M) : ~isIsolated(M, v)) =>
      isManifold(M, IsManifold) =
         IF \A v \in VertexIndices(M) : isManifoldVertex(M, v, IsManifold) = Yes
         THEN Yes ELSE No

\* The results of the calls that add, and of the calls that delete.
AddResults(m, is_manifold) ==
    {addVertex(m)} \cup {addFaceImplBase(m, l, is_manifold) : l \in AddFaceInputs}

DeleteResults(m, is_manifold) ==
    {deleteVertex(m, v, oob, is_manifold) : v \in VertexIndices(m), oob \in BOOLEAN}
    \cup {deleteEdgeHalfEdge(m, h, is_manifold) : h \in HalfEdgeIndices(m)}
    \cup {deleteEdge(m, h \div 2, is_manifold) : h \in HalfEdgeIndices(m)}
    \cup {deleteFace(m, f, is_manifold) : f \in FaceIndices(m)}

\* No sequence is shorter in after than in before, and a half-edge or face of
\* before is at its index in after: a half-edge ends in the same vertex and
\* a face has the same inner half-edge, or it is marked as deleted.
Stable(before, after) ==
    /\ sizeVertices(after) >= sizeVertices(before)
    /\ sizeHalfEdges(after) >= sizeHalfEdges(before)
    /\ sizeFaces(after) >= sizeFaces(before)
    /\ \A h \in HalfEdgeIndices(before) :
          \/ isDeletedHalfEdge(after, h)
          \/ getTerminatingVertexIndex(after, h) = getTerminatingVertexIndex(before, h)
    /\ \A f \in FaceIndices(before) :
          \/ isDeletedFace(after, f)
          \/ getInnerHalfEdgeIndex(after, f) = getInnerHalfEdgeIndex(before, f)

SameSizes(before, after) ==
    /\ sizeVertices(after) = sizeVertices(before)
    /\ sizeHalfEdges(after) = sizeHalfEdges(before)
    /\ sizeFaces(after) = sizeFaces(before)

\* C28: addVertex, addFace, deleteVertex, deleteEdge and deleteFace never
\* shorten the vertex, half-edge or face sequence and never move an element
\* to another index; after a delete the sequences are as long as before, so
\* that what was removed is at its old index and isDeleted; and cleanUp is
\* the call that takes the deleted elements out of the sequences.
C28_HandlesStable ==
    Completed =>
      /\ \A r \in AddResults(M, IsManifold) : r.st = "ok" => Stable(M, r.m)
      /\ \A r \in DeleteResults(M, IsManifold) :
            r.st = "ok" => Stable(M, r.m) /\ SameSizes(M, r.m)
      /\ LET c == cleanUp(M) IN
         c.st = "ok" =>
            /\ sizeVertices(c.m)
                 = Cardinality({v \in VertexIndices(M) : ~isDeletedVertex(M, v)})
            /\ sizeHalfEdges(c.m)
                 = Cardinality({h \in HalfEdgeIndices(M) : ~isDeletedHalfEdge(M, h)})
            /\ sizeFaces(c.m) = Cardinality(LiveFaces(M))

\* A mesh in which a deleteFace has left a face, edges and a vertex as
\* deleted in front of elements that are not, so that cleanUp renumbers.
C28_Witness ==
    /\ Completed
    /\ cleanUps = 0
    /\ \E f, g \in FaceIndices(M) : f < g /\ isDeletedFace(M, f) /\ ~isDeletedFace(M, g)
    /\ \E h, k \in HalfEdgeIndices(M) :
          h < k /\ isDeletedHalfEdge(M, h) /\ ~isDeletedHalfEdge(M, k)
    /\ \E v, w \in VertexIndices(M) :
          /\ v < w /\ isDeletedVertex(M, v) /\ ~isDeletedVertex(M, w)
          /\ \E h \in HalfEdgeIndices(M) :
                isDeletedHalfEdge(M, h) /\ At(M.half_edges_, h).idx_next_half_edge_ # Invalid
    /\ cleanUp(M).st = "ok"
    /\ cleanUp(M).m # M

\* C29: in every reachable state the number of half-edges is even, and for
\* every half-edge index h in bounds the opposite of h is in bounds, is not
\* h, has h as its opposite, and h and its opposite are the half-edges 2e
\* and 2e + 1 of the edge e = h / 2.  The two half-edges of an edge are
\* deleted together, which is what keeps the number even through cleanUp.
C29_OppositePairs ==
    /\ Len(half_edges_) % 2 = 0
    /\ \A h \in HalfEdgeIndices(M) :
          LET opposite == getOppositeHalfEdgeIndex(h)
              e == h \div 2
          IN  /\ isValidHalfEdge(M, opposite)
              /\ opposite # h
              /\ getOppositeHalfEdgeIndex(opposite) = h
              /\ isValidEdge(M, e)
              /\ {h, opposite} = {toHalfEdgeIndex(e, TRUE), toHalfEdgeIndex(e, FALSE)}
              /\ isDeletedHalfEdge(M, h) = isDeletedHalfEdge(M, opposite)

\* A mesh with a deleted edge in front of edges that are not deleted, which
\* cleanUp compacts to fewer half-edges.
C29_Witness ==
    /\ Completed
    /\ \E h, k \in HalfEdgeIndices(M) :
          h < k /\ isDeletedHalfEdge(M, h) /\ ~isDeletedHalfEdge(M, k)
    /\ cleanUp(M).st = "ok"
    /\ sizeHalfEdges(cleanUp(M).m) \in 1..(sizeHalfEdges(M) - 1)

DataLengthsEqual ==
    /\ HasVertexData => Len(vertex_data_cloud_) = Len(vertices_)
    /\ HasHalfEdgeData => Len(half_edge_data_cloud_) = Len(half_edges_)
    /\ HasEdgeData => 2 * Len(edge_data_cloud_) = Len(half_edges_)
    /\ HasFaceData => Len(face_data_cloud_) = Len(faces_)

\* C27: for every kind of element that has data, after every public call
\* (addVertex, addFace, the deletions, cleanUp, resizeVertices, resizeEdges,
\* resizeFaces, clear) the data cloud is as long as the vector of the
\* elements, and the edge data cloud half as long as the half-edges.
C27_DataLengths == Completed => DataLengthsEqual

\* What the code keeps: the lengths are equal as long as no vector has been
\* resized to another size than it had.
C27_DataLengthsBeforeResize == (Completed /\ resizes = 0) => DataLengthsEqual

\* Vertex data, two vertices added, and the vertices resized to fewer.
C27_Witness ==
    /\ Completed
    /\ HasVertexData
    /\ resizes = 1
    /\ Len(vertex_data_cloud_) = 2
    /\ Len(vertices_) < 2

\* The meshes that the loop of the non-manifold deleteFace hands to reconnect,
\* one for every corner i the loop comes to.
RECURSIVE reconnectLoopMeshes(_, _, _, _, _, _)
reconnectLoopMeshes(m, inner_he, is_boundary, delete_faces, i, is_manifold) ==
    LET n == Len(inner_he)
        r == reconnect(m, At(inner_he, i), At(inner_he, (i + 1) % n),
                       At(is_boundary, i), At(is_boundary, (i + 1) % n),
                       delete_faces, is_manifold)
    IN  IF i >= n THEN <<>>
        ELSE <<m>> \o
             (IF r.hang THEN <<>>
              ELSE reconnectLoopMeshes(setFaceIndex(r.m, At(inner_he, i), Invalid),
                                       inner_he, is_boundary, r.delete_faces, i + 1,
                                       is_manifold))

\* The meshes reconnect is called on while deleteFace handles face idx_face of
\* mesh m.
reconnectMeshes(m, idx_face, is_manifold) ==
    LET round == circulatorRound("inner", m, getInnerHalfEdgeIndex(m, idx_face)) IN
    reconnectLoopMeshes(m, round.seq,
                        [k \in 1..Len(round.seq) |->
                           isBoundaryHalfEdge(m, getOppositeHalfEdgeIndex(round.seq[k]))],
                        <<>>, 0, is_manifold)

\* C31: while deleteFace handles a face, every call of reconnect, for every
\* corner of the face, finds the face index of all inner half-edges of the
\* face still set: none is invalidated before the last call of reconnect.
C31_FaceLinksKeptUntilReconnected ==
    Completed =>
      \A f \in LiveFaces(M) :
         LET round == circulatorRound("inner", M, getInnerHalfEdgeIndex(M, f))
             meshes == reconnectMeshes(M, f, IsManifold)
         IN  \A k \in DOMAIN meshes : \A j \in DOMAIN round.seq :
                getFaceIndex(meshes[k], round.seq[j]) = f

\* What the code keeps: the call of reconnect for corner i finds the face index
\* of the inner half-edges i .. n-1 set and that of 0 .. i-1 invalidated.
C31_FaceLinksInvalidatedInTurn ==
    Completed =>
      \A f \in LiveFaces(M) :
         LET round == circulatorRound("inner", M, getInnerHalfEdgeIndex(M, f))
             meshes == reconnectMeshes(M, f, IsManifold)
         IN  \A k \in DOMAIN meshes : \A j \in DOMAIN round.seq :
                getFaceIndex(meshes[k], round.seq[j]) = IF j < k THEN Invalid ELSE f

\* The edges of mesh m with a half-edge that is not deleted and ends in v.
EdgesAtVertex(m, v) ==
    {h \div 2 : h \in {k \in HalfEdgeIndices(m) :
                         ~isDeletedHalfEdge(m, k) /\ getTerminatingVertexIndex(m, k) = v}}

\* deleteFace on face f of M has returned with r and, in the manifold policy,
\* has deleted no other face.
DeletedOneFace(f, r) ==
    /\ r.st = "ok"
    /\ IsManifold => LiveFaces(r.m) = LiveFaces(M) \ {f}

\* C32: after deleteFace (f) has returned, in the non-manifold policy and in
\* the manifold policy when no other face was deleted, an inner half-edge of f
\* whose opposite was on the boundary is deleted together with its opposite;
\* the other inner half-edges and their opposites are not deleted, the inner
\* half-edge is on the boundary and the opposite has the face it had.  A
\* vertex of f is deleted exactly when the two edges of f at it are deleted
\* and no other edge was at it.
C32_DeleteFaceEdges ==
    Completed =>
      \A f \in LiveFaces(M) : \A r \in {deleteFace(M, f, IsManifold)} :
         DeletedOneFace(f, r) =>
           LET round == circulatorRound("inner", M, getInnerHalfEdgeIndex(M, f)) IN
           \A j \in DOMAIN round.seq :
              LET h == round.seq[j]
                  o == getOppositeHalfEdgeIndex(h)
                  h_next == round.seq[(j % Len(round.seq)) + 1]
                  v == getTerminatingVertexIndex(M, h)
              IN  /\ IF isBoundaryHalfEdge(M, o)
                     THEN isDeletedHalfEdge(r.m, h) /\ isDeletedHalfEdge(r.m, o)
                     ELSE /\ ~isDeletedHalfEdge(r.m, h)
                          /\ ~isDeletedHalfEdge(r.m, o)
                          /\ isBoundaryHalfEdge(r.m, h)
                          /\ getFaceIndex(r.m, o) = getFaceIndex(M, o)
                  /\ isDeletedVertex(r.m, v) <=>
                       /\ isDeletedHalfEdge(r.m, h)
                       /\ isDeletedHalfEdge(r.m, h_next)
                       /\ EdgesAtVertex(M, v) = {h \div 2, h_next \div 2}


\* Non-manifold policy: a face with an edge on the boundary and an edge shared
\* with another face, whose deletion deletes a vertex.
C32_Witness ==
    /\ Completed
    /\ ~IsManifold
    /\ \E f \in LiveFaces(M) : \E r \in {deleteFace(M, f, IsManifold)} :
         LET round == circulatorRound("inner", M, getInnerHalfEdgeIndex(M, f)) IN
         /\ DeletedOneFace(f, r)
         /\ \E j \in DOMAIN round.seq :
               isBoundaryHalfEdge(M, getOppositeHalfEdgeIndex(round.seq[j]))
         /\ \E j \in DOMAIN round.seq :
               ~isBoundaryHalfEdge(M, getOppositeHalfEdgeIndex(round.seq[j]))
         /\ \E j \in DOMAIN round.seq :
               LET v == getTerminatingVertexIndex(M, round.seq[j]) IN
               ~isDeletedVertex(M, v) /\ isDeletedVertex(r.m, v)

\* Manifold policy: the deletion of a face between two other faces, which
\* deletes no other face.
C32_WitnessManifold ==
    /\ Completed
    /\ IsManifold
    /\ \E f \in LiveFaces(M) : \E r \in {deleteFace(M, f, IsManifold)} :
         LET round == circulatorRound("inner", M, getInnerHalfEdgeIndex(M, f)) IN
         /\ DeletedOneFace(f, r)
         /\ Cardinality({j \in DOMAIN round.seq :
               ~isBoundaryHalfEdge(M, getOppositeHalfEdgeIndex(round.seq[j]))}) >= 2


\* C33: in the non-manifold policy deleteFace (f) marks the face f as deleted
\* and no other; in either policy every face that is not deleted after
\* deleteFace has returned has the vertices around it that it had before.
C33_DeleteFaceFrame ==
    Completed =>
      \A f \in LiveFaces(M) : \A r \in {deleteFace(M, f, IsManifold)} :
         r.st = "ok" =>
           /\ ~IsManifold => LiveFaces(r.m) = LiveFaces(M) \ {f}
           /\ LiveFaces(r.m) \subseteq LiveFaces(M) \ {f}
           /\ \A g \in LiveFaces(r.m) :
                 /\ getInnerHalfEdgeIndex(r.m, g) = getInnerHalfEdgeIndex(M, g)
                 /\ circulatorRound("inner", r.m, getInnerHalfEdgeIndex(r.m, g))
                      = circulatorRound("inner", M, getInnerHalfEdgeIndex(M, g))
                 /\ VerticesAroundFace(r.m, g) = VerticesAroundFace(M, g)

\* Non-manifold policy: a mesh of three faces or more, of which deleteFace
\* leaves two or more.
C33_Witness ==
    /\ Completed
    /\ ~IsManifold
    /\ \E f \in LiveFaces(M) : \E r \in {deleteFace(M, f, IsManifold)} :
         r.st = "ok" /\ Cardinality(LiveFaces(r.m)) >= 2

\* Manifold policy: deleteFace deletes another face as well and leaves a face.
C33_WitnessCascade ==
    /\ Completed
    /\ IsManifold
    /\ \E f \in LiveFaces(M) : \E r \in {deleteFace(M, f, IsManifold)} :
         /\ r.st = "ok"
         /\ LiveFaces(r.m) # {}
         /\ Cardinality(LiveFaces(r.m)) + 2 <= Cardinality(LiveFaces(M))


\* The half-edges without face that end in vertex v and are not deleted.
BoundaryIncomingHalfEdges(m, v) ==
    {h \in HalfEdgeIndices(m) :
       /\ ~isDeletedHalfEdge(m, h)
       /\ getTerminatingVertexIndex(m, h) = v
       /\ isBoundaryHalfEdge(m, h)}

\* The corners of addFace (vertices) on the mesh M at which checkTopology2 has
\* to look for a free half-edge: the first topology check has found an old
\* half-edge for the slot i and for the slot after it, and the second is not
\* the next of the first.
NotAdjacentCorners(vertices) ==
    LET n == Len(vertices)
        t1 == checkTopology1Loop(M, vertices, [i \in 1..n |-> Invalid],
                                 [i \in 1..n |-> TRUE], 0, FALSE)
    IN  IF \/ n < 3
           \/ \E i \in 1..n : ~isValidVertex(M, vertices[i])
           \/ \E i, j \in 1..n : i # j /\ vertices[i] = vertices[j]
           \/ \A i \in 1..n : isIsolated(M, vertices[i])
           \/ ~t1.ok
        THEN {}
        ELSE {[idx_he_ab |-> At(t1.inner_he, i), idx_he_bc |-> At(t1.inner_he, (i + 1) % n),
               idx_v_b |-> At(vertices, (i + 1) % n)] :
                i \in {k \in 0..(n - 1) :
                         /\ ~At(t1.is_new, k)
                         /\ ~At(t1.is_new, (k + 1) % n)
                         /\ getNextHalfEdgeIndex(M, At(t1.inner_he, k))
                              # At(t1.inner_he, (k + 1) % n)}}

\* The half-edge without face that ends the fan of faces h lies in: from h
\* on, the incoming half-edge of the next face around the vertex, until one
\* has no face.
RECURSIVE FanEnd(_, _, _)
FanEnd(m, h, steps) ==
    IF isBoundaryHalfEdge(m, h) \/ steps = 0 THEN h
    ELSE FanEnd(m, getOppositeHalfEdgeIndex(getNextHalfEdgeIndex(m, h)), steps - 1)

\* C34, as stated: in the non-manifold policy, at a corner of addFace whose
\* two slots are old boundary half-edges that are not adjacent, the check
\* fails only if no other half-edge without face than inner_he [i] ends in
\* the vertex; if there is another, one of them is recorded as free half-edge
\* and the check passes.
C34_FailsOnlyWithoutFree ==
    (Completed /\ ~IsManifold) =>
      \A vertices \in AddFaceInputs : \A c \in NotAdjacentCorners(vertices) :
         \A r \in {checkTopology2(M, c.idx_he_ab, c.idx_he_bc, FALSE, FALSE, FALSE, FALSE)} :
            LET others == BoundaryIncomingHalfEdges(M, c.idx_v_b) \ {c.idx_he_ab} IN
            /\ ~r.hang
            /\ ~r.ok => others = {}
            /\ others # {} => r.ok /\ r.make_adjacent_ab_bc /\ r.idx_free_half_edge \in others

\* C34, as the code has it: the free half-edge is the half-edge without face
\* that ends the fan of faces of inner_he [i+1]; the check fails exactly when
\* that is inner_he [i], the two slots lying around the same fan, although
\* other half-edges without face end in the vertex then; otherwise it is
\* recorded, and when no corner fails addFace adds the face.
C34_FailsWhenSameFan ==
    (Completed /\ ~IsManifold) =>
      \A vertices \in AddFaceInputs :
         LET corners == NotAdjacentCorners(vertices) IN
         /\ \A c \in corners :
              \A r \in {checkTopology2(M, c.idx_he_ab, c.idx_he_bc, FALSE, FALSE, FALSE, FALSE)} :
                 LET others == BoundaryIncomingHalfEdges(M, c.idx_v_b) \ {c.idx_he_ab} IN
                 /\ ~r.hang
                 /\ r.make_adjacent_ab_bc
                 /\ others # {}
                 /\ r.idx_free_half_edge \in BoundaryIncomingHalfEdges(M, c.idx_v_b)
                 /\ r.idx_free_half_edge =
                      FanEnd(M, getOppositeHalfEdgeIndex(c.idx_he_bc), Len(half_edges_))
                 /\ r.ok <=> r.idx_free_half_edge # c.idx_he_ab
         /\ (/\ corners # {}
             /\ \A c \in corners :
                   checkTopology2(M, c.idx_he_ab, c.idx_he_bc, FALSE, FALSE, FALSE, FALSE).ok)
               => \A a \in {addFaceImplBase(M, vertices, FALSE)} :
                     a.st = "ok" /\ a.ret = sizeFaces(M)

\* A corner at which the check fails, and a corner of another face at which a
\* free half-edge is found and the face is added.
C34_Witness ==
    /\ Completed
    /\ ~IsManifold
    /\ \E vertices \in AddFaceInputs : \E c \in NotAdjacentCorners(vertices) :
          ~checkTopology2(M, c.idx_he_ab, c.idx_he_bc, FALSE, FALSE, FALSE, FALSE).ok
    /\ \E vertices \in AddFaceInputs :
          /\ NotAdjacentCorners(vertices) # {}
          /\ addFaceImplBase(M, vertices, FALSE).ret = sizeFaces(M)


\* C35: in every state between completed addVertex / addFace / delete calls
\* the two half-edges of an edge are both marked as deleted or both not, so
\* that isDeleted of the edge is isDeleted of either half-edge and cleanUp
\* removes half-edges in pairs.
C35_EdgeDeletedAsPair ==
    Completed =>
      /\ sizeHalfEdges(M) = 2 * sizeEdges(M)
      /\ \A idx_edge \in 0..(sizeEdges(M) - 1) :
            /\ isDeletedHalfEdge(M, toHalfEdgeIndex(idx_edge, TRUE))
                 = isDeletedHalfEdge(M, toHalfEdgeIndex(idx_edge, FALSE))
            /\ isDeletedEdge(M, idx_edge)
                 = isDeletedHalfEdge(M, toHalfEdgeIndex(idx_edge, TRUE))
      /\ \A r \in {cleanUp(M)} :
            r.st = "ok" =>
              2 * Cardinality({e \in 0..(sizeEdges(M) - 1) : ~isDeletedEdge(M, e)})
                = sizeHalfEdges(r.m)

\* Before cleanUp: deleteFace has deleted an edge of a face and left another
\* edge of it.
C35_Witness ==
    /\ Completed
    /\ cleanUps = 0
    /\ \E f \in FaceIndices(M) :
         /\ isDeletedFace(M, f)
         /\ \E e1, e2 \in 0..(sizeEdges(M) - 1) :
               /\ isDeletedEdge(M, e1)
               /\ ~isDeletedEdge(M, e2)
               /\ isBoundaryEdge(M, e2)


\* C36: in every state between completed addVertex / addFace / delete calls,
\* before cleanUp, an element that is not deleted refers only to elements
\* that are not deleted: next and prev of a half-edge are half-edges that are
\* not deleted, its terminating vertex has an outgoing half-edge, its face is
\* invalid or a face that is not deleted; the inner half-edge of a face and
\* the outgoing half-edge of a vertex are not deleted.
C36_LiveRefersToLive ==
    (Completed /\ cleanUps = 0) =>
      /\ \A h \in HalfEdgeIndices(M) :
            ~isDeletedHalfEdge(M, h) =>
               /\ isValidHalfEdge(M, getNextHalfEdgeIndex(M, h))
               /\ ~isDeletedHalfEdge(M, getNextHalfEdgeIndex(M, h))
               /\ isValidHalfEdge(M, getPrevHalfEdgeIndex(M, h))
               /\ ~isDeletedHalfEdge(M, getPrevHalfEdgeIndex(M, h))
               /\ isValidVertex(M, getTerminatingVertexIndex(M, h))
               /\ ~isDeletedVertex(M, getTerminatingVertexIndex(M, h))
               /\ \/ getFaceIndex(M, h) = Invalid
                  \/ /\ isValidFace(M, getFaceIndex(M, h))
                     /\ ~isDeletedFace(M, getFaceIndex(M, h))
      /\ \A f \in LiveFaces(M) :
            /\ isValidHalfEdge(M, getInnerHalfEdgeIndex(M, f))
            /\ ~isDeletedHalfEdge(M, getInnerHalfEdgeIndex(M, f))
      /\ \A v \in VertexIndices(M) :
            ~isDeletedVertex(M, v) =>
               /\ isValidHalfEdge(M, getOutgoingHalfEdgeIndex(M, v))
               /\ ~isDeletedHalfEdge(M, getOutgoingHalfEdgeIndex(M, v))

\* Before cleanUp: a deleted face and a deleted edge next to a face that is
\* not deleted, and two half-edges on the boundary that follow each other.
C36_Witness ==
    /\ Completed
    /\ cleanUps = 0
    /\ LiveFaces(M) # {}
    /\ \E f \in FaceIndices(M) : isDeletedFace(M, f)
    /\ \E h \in HalfEdgeIndices(M) : isDeletedHalfEdge(M, h)
    /\ \E h \in HalfEdgeIndices(M) :
          /\ ~isDeletedHalfEdge(M, h)
          /\ isBoundaryHalfEdge(M, h)
          /\ isBoundaryHalfEdge(M, getNextHalfEdgeIndex(M, h))


\* C37: after any sequence of addVertex / addFace / delete calls, under either
\* policy, at most one half-edge that is not deleted goes from a vertex u to
\* a vertex w: addFace adds no second edge between two vertices that an edge
\* joins already.
C37_OneHalfEdgePerPair ==
    Completed =>
      \A u, w \in VertexIndices(M) : Cardinality(HalfEdgesFromTo(M, u, w)) <= 1


\* What the code keeps: in the non-manifold policy, where checkTopology1 looks
\* at every half-edge that leaves the vertex.
C37_OneHalfEdgePerPairNonManifold ==
    (Completed /\ ~IsManifold) =>
      \A u, w \in VertexIndices(M) : Cardinality(HalfEdgesFromTo(M, u, w)) <= 1


\* C38: an addFace that returns a face index, under either policy, with
\* makeAdjacent and the connect functions of a non-manifold vertex as well,
\* leaves every face that was not deleted not deleted and with the vertices
\* around it that it had, and changes the face index of no half-edge but the
\* n inner half-edges of the new face.
C38_AddFaceFrame ==
    Completed =>
      \A vertices \in AddFaceInputs : \A r \in {addFaceImplBase(M, vertices, IsManifold)} :
         (r.st = "ok" /\ r.ret # Invalid) =>
            LET inner == circulatorRound("inner", r.m, getInnerHalfEdgeIndex(r.m, r.ret)) IN
            /\ inner.closed
            /\ Len(inner.seq) = Len(vertices)
            /\ \A g \in LiveFaces(M) :
                  /\ ~isDeletedFace(r.m, g)
                  /\ getInnerHalfEdgeIndex(r.m, g) = getInnerHalfEdgeIndex(M, g)
                  /\ VerticesAroundFace(r.m, g) = VerticesAroundFace(M, g)
            /\ \A h \in HalfEdgeIndices(M) :
                  getFaceIndex(r.m, h) # getFaceIndex(M, h) =>
                     \E k \in DOMAIN inner.seq : inner.seq[k] = h
            /\ \A h \in HalfEdgeIndices(r.m) \ HalfEdgeIndices(M) :
                  getFaceIndex(r.m, h) # Invalid =>
                     \E k \in DOMAIN inner.seq : inner.seq[k] = h

\* Non-manifold policy: a face is added between two old half-edges that
\* makeAdjacent has to bring together, next to faces that stay.
C38_Witness ==
    /\ Completed
    /\ ~IsManifold
    /\ Cardinality(LiveFaces(M)) >= 2
    /\ \E vertices \in AddFaceInputs :
          /\ NotAdjacentCorners(vertices) # {}
          /\ addFaceImplBase(M, vertices, IsManifold).ret = sizeFaces(M)


\* C39: in every state between completed addVertex / addFace / delete calls
\* an edge that is not deleted has a half-edge with a face that is not
\* deleted: no such edge has both half-edges on the boundary.
C39_EdgeHasFace ==
    Completed =>
      \A idx_edge \in 0..(sizeEdges(M) - 1) :
         ~isDeletedEdge(M, idx_edge) =>
            \E h \in {toHalfEdgeIndex(idx_edge, TRUE), toHalfEdgeIndex(idx_edge, FALSE)} :
               /\ ~isBoundaryHalfEdge(M, h)
               /\ isValidFace(M, getFaceIndex(M, h))
               /\ ~isDeletedFace(M, getFaceIndex(M, h))

\* A face was deleted next to a face that stays: the edge between them has a
\* face on one side only, and an edge of the deleted face is deleted.
C39_Witness ==
    /\ Completed
    /\ \E f \in FaceIndices(M) : isDeletedFace(M, f)
    /\ \E idx_edge \in 0..(sizeEdges(M) - 1) : isDeletedEdge(M, idx_edge)
    /\ \E h \in HalfEdgeIndices(M) :
          /\ ~isDeletedHalfEdge(M, h)
          /\ isBoundaryHalfEdge(M, h)
          /\ ~isBoundaryHalfEdge(M, getOppositeHalfEdgeIndex(h))


\* C40: for every face that is not deleted, in every reachable mesh under
\* either policy, when isBoundary of the face that checks the edges answers
\* true (an outer half-edge of the face has no face), isBoundary of the face
\* that checks the vertices, the default, answers true as well.
C40_BoundaryEdgesImplyVertices ==
    Completed =>
      \A f \in LiveFaces(M) :
         \A e \in {isBoundaryFace(M, f, FALSE)}, v \in {isBoundaryFace(M, f, TRUE)} :
            /\ e.st = "ok"
            /\ v.st = "ok"
            /\ e.ret <=> \E h \in HalfEdgeIndices(M) :
                            /\ getFaceIndex(M, h) = f
                            /\ isBoundaryHalfEdge(M, getOppositeHalfEdgeIndex(h))
            /\ e.ret => v.ret

\* A face with an edge on the boundary whose first vertex is not on the
\* boundary, and a face with a vertex but no edge on the boundary.
C40_Witness ==
    /\ Completed
    /\ \E f \in LiveFaces(M) :
          /\ isBoundaryFace(M, f, FALSE).ret
          /\ ~isBoundaryVertex(M, getTerminatingVertexIndex(M, getInnerHalfEdgeIndex(M, f)))
    /\ \E f \in LiveFaces(M) :
          /\ ~isBoundaryFace(M, f, FALSE).ret
          /\ isBoundaryFace(M, f, TRUE).ret

====
